---- MODULE Spec2Model ----
(***************************************************************************)
(* Model of the benchmark harness of aigentic-examples (benchmark/main.go  *)
(* and benchmark/core).  Go strings are TLA+ strings handled character by  *)
(* character (Len, SubSeq, \o), so prefix tests, splitting, trimming and   *)
(* case folding are computed the way the strings package computes them.    *)
(***************************************************************************)
EXTENDS Integers, Sequences, FiniteSets, TLC

VARIABLES
    phase,      \* position of the function under study: "in" (called), "out" (returned);
                \* of the benchmark process: where main is
    input,      \* its arguments; of the process: command line and environment
    output,     \* what it returned, and what it invoked on the way
    \* the benchmark process (main, runModels, runEvaluationMode)
    modelNames,             \* main: strings.Fields of the joined arguments
    models,                 \* main: the handles resolved so far
    invoked,                \* provider constructors called so far (entry, argument)
    filteredCapabilities,   \* main: what filterCapabilities returned
    index,                  \* runModels: the model the outer loop is at
    testIndex,              \* the capability the inner loop is at
    results,                \* runModels: the row being filled
    allResults,             \* runModels: the matrix
    calls,                  \* every RunFunction call made so far (capability, model)
    console,                \* what the process has printed
    exitCode,               \* Running, or the status the process ended with
    report                  \* comparison_report.md

mainVars == <<modelNames, models, invoked, filteredCapabilities, index, testIndex,
              results, allResults, calls, console, exitCode, report>>

vars == <<phase, input, output, modelNames, models, invoked, filteredCapabilities,
          index, testIndex, results, allResults, calls, console, exitCode, report>>

\* the process has not ended
Running == -1

\* no comparison_report.md in the working directory
NoFile == [exists |-> FALSE, lines |-> <<>>]

\* the process before main has done anything
MainStart ==
    /\ modelNames = <<>>
    /\ models = <<>>
    /\ invoked = <<>>
    /\ filteredCapabilities = <<>>
    /\ index = 1
    /\ testIndex = 1
    /\ results = <<>>
    /\ allResults = <<>>
    /\ calls = <<>>
    /\ console = <<>>
    /\ exitCode = Running
    /\ report = NoFile

----------------------------------------------------------------------------
(* Package strings, on ASCII text.                                         *)

Char(s, i) == SubSeq(s, i, i)

UpperChars == "ABCDEFGHIJKLMNOPQRSTUVWXYZ"
LowerChars == "abcdefghijklmnopqrstuvwxyz"

\* unicode.ToLower of one ASCII character
ToLowerChar(c) ==
    IF \E i \in 1..Len(UpperChars) : Char(UpperChars, i) = c
    THEN Char(LowerChars, CHOOSE i \in 1..Len(UpperChars) : Char(UpperChars, i) = c)
    ELSE c

\* strings.ToLower, character by character (halving keeps the evaluation shallow)
RECURSIVE ToLower(_)
ToLower(s) ==
    IF Len(s) = 0 THEN ""
    ELSE IF Len(s) = 1 THEN ToLowerChar(s)
    ELSE ToLower(SubSeq(s, 1, Len(s) \div 2)) \o ToLower(SubSeq(s, Len(s) \div 2 + 1, Len(s)))

\* strings.EqualFold: equality under simple case folding
EqualFold(s, t) ==
    /\ Len(s) = Len(t)
    /\ \A i \in 1..Len(s) : ToLowerChar(Char(s, i)) = ToLowerChar(Char(t, i))

HasPrefix(s, prefix) ==
    /\ Len(s) >= Len(prefix)
    /\ SubSeq(s, 1, Len(prefix)) = prefix

Contains(s, substr) ==
    \E i \in 1..(Len(s) - Len(substr) + 1) : SubSeq(s, i, i + Len(substr) - 1) = substr

\* unicode.IsSpace on ASCII
IsSpace(c) == c \in {" ", "\t", "\n", "\r"}

RECURSIVE TrimLeft(_)
TrimLeft(s) == IF s # "" /\ IsSpace(Head(s)) THEN TrimLeft(Tail(s)) ELSE s

RECURSIVE TrimRight(_)
TrimRight(s) ==
    IF s # "" /\ IsSpace(Char(s, Len(s))) THEN TrimRight(SubSeq(s, 1, Len(s) - 1)) ELSE s

TrimSpace(s) == TrimRight(TrimLeft(s))

\* strings.Split(s, sep) for a non-empty separator: always at least one piece
RECURSIVE SplitFrom(_, _, _)
SplitFrom(s, sep, cur) ==
    IF s = "" THEN <<cur>>
    ELSE IF HasPrefix(s, sep)
    THEN <<cur>> \o SplitFrom(SubSeq(s, Len(sep) + 1, Len(s)), sep, "")
    ELSE SplitFrom(Tail(s), sep, cur \o SubSeq(s, 1, 1))

Split(s, sep) == SplitFrom(s, sep, "")

\* strings.Fields: the maximal runs of non-space characters
RECURSIVE FieldsFrom(_, _)
FieldsFrom(s, cur) ==
    IF s = "" THEN (IF cur = "" THEN <<>> ELSE <<cur>>)
    ELSE IF IsSpace(Head(s))
         THEN (IF cur = "" THEN <<>> ELSE <<cur>>) \o FieldsFrom(Tail(s), "")
         ELSE FieldsFrom(Tail(s), cur \o Head(s))

Fields(s) == FieldsFrom(s, "")

RECURSIVE Join(_, _)
Join(elems, sep) ==
    IF Len(elems) = 0 THEN ""
    ELSE IF Len(elems) = 1 THEN elems[1]
    ELSE elems[1] \o sep \o Join(Tail(elems), sep)

----------------------------------------------------------------------------
(* The model registry and createModel.                                     *)

\* *ai.Model: nil, or the handle a provider constructor built
NilModel == [ModelName |-> "", provider |-> "nil"]

NewModel(provider, modelName) == [ModelName |-> modelName, provider |-> provider]

modelsTable == <<
    [Name |-> "gpt-4o-mini", ProviderFunc |-> "openAIProvider"],
    [Name |-> "gpt-4o",      ProviderFunc |-> "openAIProvider"],
    [Name |-> "gpt",         ProviderFunc |-> "openAIProvider"],
    [Name |-> "qwen",        ProviderFunc |-> "ollamaProvider"],
    [Name |-> "llama3.2",    ProviderFunc |-> "ollamaProvider"],
    [Name |-> "gemma",       ProviderFunc |-> "ollamaProvider"],
    [Name |-> "deepseek",    ProviderFunc |-> "ollamaProvider"],
    [Name |-> "gemini",      ProviderFunc |-> "geminiProvider"] >>

\* the process environment: the two credential variables ("" when unset)
Environments == [OPENAI_API_KEY : {"", "sk-key"}, GOOGLE_API_KEY : {"", "g-key"}]

openAIProvider(modelName, env) ==
    IF env.OPENAI_API_KEY = "" THEN NilModel ELSE NewModel("openai", modelName)

ollamaProvider(modelName, env) == NewModel("ollama", modelName)

geminiProvider(modelName, env) ==
    IF env.GOOGLE_API_KEY = "" THEN NilModel ELSE NewModel("gemini", modelName)

\* modelDesc.ProviderFunc(modelName)
CallProvider(f, modelName, env) ==
    CASE f = "openAIProvider" -> openAIProvider(modelName, env)
      [] f = "ollamaProvider" -> ollamaProvider(modelName, env)
      [] f = "geminiProvider" -> geminiProvider(modelName, env)

\* a loop over the table that returns at its first match: the lowest matching
\* index, 0 when the loop ends without a match
FirstMatch(matches) ==
    IF matches = {} THEN 0 ELSE CHOOSE i \in matches : \A k \in matches : i <= k

\* a single loop that keeps overwriting its match and returns after the loop:
\* the last entry that prefixes the name wins
createModelEntryLastPrefix(modelName) ==
    LET Matches == { i \in 1..Len(modelsTable) : HasPrefix(modelName, modelsTable[i].Name) }
    IN  IF Matches = {} THEN 0 ELSE CHOOSE i \in Matches : \A k \in Matches : k <= i

\* createModel's two loops: the entry whose provider is invoked (0: none)
createModelEntry(modelName) ==
    LET exact  == FirstMatch({ i \in 1..Len(modelsTable) : modelsTable[i].Name = modelName })
        prefix == FirstMatch({ i \in 1..Len(modelsTable) :
                                  HasPrefix(modelName, modelsTable[i].Name) })
    IN  IF exact # 0 THEN exact ELSE prefix

\* an unmatched name falls through to the local provider instead of nil
createModelDefaultsToOllama(modelName, env) ==
    LET e == createModelEntry(modelName)
    IN  IF e = 0
        THEN [model |-> ollamaProvider(modelName, env), invoked |-> << [entry |-> 4, arg |-> modelName] >>]
        ELSE [model   |-> CallProvider(modelsTable[e].ProviderFunc, modelName, env),
              invoked |-> << [entry |-> e, arg |-> modelName] >>]

\* createModel: the handle returned, and the provider invocations made (entry, argument)
createModel(modelName, env) ==
    LET e == createModelEntry(modelName)
    IN  IF e = 0
        THEN [model |-> NilModel, invoked |-> <<>>]
        ELSE [model   |-> CallProvider(modelsTable[e].ProviderFunc, modelName, env),
              invoked |-> << [entry |-> e, arg |-> modelName] >>]

----------------------------------------------------------------------------
(* benchmark/core: BenchResult and the helpers of utils.go.                *)

\* a Go error value: nil, or an error whose Error() is msg
NilErr == [isNil |-> TRUE, msg |-> ""]
NewError(msg) == [isNil |-> FALSE, msg |-> msg]

\* the errors the agent framework hands back (Start, Execute, Wait, ErrorEvent.Err);
\* like every error built in this repository they carry a message
FrameworkErrors == { NewError("model call failed"), NewError("context deadline exceeded") }

\* time.Duration, in milliseconds
Milliseconds == {700, 14449}

\* the zero BenchResult
ZeroResult ==
    [TestCase |-> "", ModelName |-> "", Success |-> FALSE, Duration |-> 0,
     ResponseSize |-> 0, ErrorMessage |-> ""]

\* what a RunFunction hands to its caller: (result, err), or a panic; with it,
\* what its event loop did to the run: events consumed, approvals granted
Return(result, err) ==
    [result |-> result, err |-> err, panicked |-> FALSE, consumed |-> 0, approved |-> <<>>]

Panic == [result |-> ZeroResult, err |-> NilErr, panicked |-> TRUE, consumed |-> 0, approved |-> <<>>]

\* the error branch records the message but leaves Success set
CreateBenchResultKeepsSuccess(testCase, model, elapsed, response, err) ==
    [TestCase     |-> testCase,
     ModelName    |-> model.ModelName,
     Success      |-> TRUE,
     Duration     |-> elapsed,
     ResponseSize |-> Len(response),
     ErrorMessage |-> IF err.isNil THEN "" ELSE err.msg]

\* CreateBenchResult; elapsed is time.Since(start)
CreateBenchResult(testCase, model, elapsed, response, err) ==
    [TestCase     |-> testCase,
     ModelName    |-> model.ModelName,
     Success      |-> err.isNil,
     Duration     |-> elapsed,
     ResponseSize |-> Len(response),
     ErrorMessage |-> IF err.isNil THEN "" ELSE err.msg]

TruncateString(s, maxLen) ==
    IF Len(s) <= maxLen THEN s ELSE SubSeq(s, 1, maxLen) \o "..."

\* ValidateResponse: nil when the response contains the expected text, case aside
ValidateResponse(response, expectedContent) ==
    IF ~Contains(ToLower(response), ToLower(expectedContent))
    THEN NewError("expected response to contain '" \o expectedContent \o "', got: "
                  \o TruncateString(response, 200))
    ELSE NilErr

\* the message is set and Success is left as CreateBenchResult made it
FailedKeepsSuccess(result, msg) == [result EXCEPT !.ErrorMessage = msg]

\* result.Success = false; result.ErrorMessage = msg
Failed(result, msg) == [result EXCEPT !.Success = FALSE, !.ErrorMessage = msg]

----------------------------------------------------------------------------
(* The agent framework as the capability functions see it.                 *)

ContentEvent(c)  == [type |-> "content",  Content |-> c,  ToolName |-> "", ApprovalID |-> "", Err |-> NilErr]
ToolEvent(name)  == [type |-> "tool",     Content |-> "", ToolName |-> name, ApprovalID |-> "", Err |-> NilErr]
ApprovalEvent(a) == [type |-> "approval", Content |-> "", ToolName |-> "", ApprovalID |-> a, Err |-> NilErr]
ErrorEvent(err)  == [type |-> "error",    Content |-> "", ToolName |-> "", ApprovalID |-> "", Err |-> err]

\* the state of `for ev := range run.Next()` before the first event
LoopStart ==
    [chunks |-> <<>>, toolCalls |-> <<>>, approved |-> <<>>, consumed |-> 0,
     failed |-> FALSE, err |-> NilErr]

\* an error event is noted and the loop goes on to the events after it
RECURSIVE RangeEventsGoesOnAfterError(_, _)
RangeEventsGoesOnAfterError(events, st) ==
    IF Len(events) = 0 THEN st
    ELSE LET e  == Head(events)
             s1 == [st EXCEPT !.consumed = @ + 1]
         IN  CASE e.type = "content" ->
                    RangeEventsGoesOnAfterError(Tail(events), [s1 EXCEPT !.chunks = Append(@, e.Content)])
               [] e.type = "tool" ->
                    RangeEventsGoesOnAfterError(Tail(events), [s1 EXCEPT !.toolCalls = Append(@, e.ToolName)])
               [] e.type = "approval" ->
                    RangeEventsGoesOnAfterError(Tail(events), [s1 EXCEPT !.approved = Append(@, e.ApprovalID)])
               [] e.type = "error" ->
                    RangeEventsGoesOnAfterError(Tail(events), [s1 EXCEPT !.failed = TRUE, !.err = e.Err])

\* the event loop shared by the streaming capability functions: content is
\* appended, tool names are appended, approvals are granted, and the first
\* ErrorEvent returns from the function
RECURSIVE RangeEvents(_, _)
RangeEvents(events, st) ==
    IF Len(events) = 0 THEN st
    ELSE LET e  == Head(events)
             s1 == [st EXCEPT !.consumed = @ + 1]
         IN  CASE e.type = "content" ->
                    RangeEvents(Tail(events), [s1 EXCEPT !.chunks = Append(@, e.Content)])
               [] e.type = "tool" ->
                    RangeEvents(Tail(events), [s1 EXCEPT !.toolCalls = Append(@, e.ToolName)])
               [] e.type = "approval" ->
                    RangeEvents(Tail(events), [s1 EXCEPT !.approved = Append(@, e.ApprovalID)])
               [] e.type = "error" ->
                    [s1 EXCEPT !.failed = TRUE, !.err = e.Err]

\* a return from inside or after the event loop
ReturnFromLoop(st, result, err) ==
    [result |-> result, err |-> err, panicked |-> FALSE,
     consumed |-> st.consumed, approved |-> st.approved]

----------------------------------------------------------------------------
(* The capability functions.  w is what the framework does during the call. *)

\* w.response, w.err: what agent.Execute returns
RunSimpleAgent(model, w) ==
    LET result == [ZeroResult EXCEPT !.TestCase = "SimpleAgent",
                                     !.ModelName = model.ModelName,
                                     !.Duration = w.elapsed,
                                     !.ResponseSize = Len(w.response)]
    IN  IF ~w.err.isNil
        THEN Return(Failed(result, w.err.msg), w.err)
        ELSE IF ~Contains(ToLower(w.response), "canberra")
        THEN LET err == NewError("expected response to contain 'Canberra', got: " \o w.response)
             IN  Return(Failed(result, err.msg), err)
        ELSE Return([result EXCEPT !.Success = TRUE], NilErr)

RunFileAttachmentsAgent(model, w) ==
    LET result == CreateBenchResult("FileAttachments", model, w.elapsed, w.response, w.err)
        prefix == ValidateResponse(w.response, "SUCCESS:")
        contentChecks == <<"artificial intelligence", "machine learning", "sample content">>
        contentFound == \E i \in 1..Len(contentChecks) :
                            ValidateResponse(w.response, contentChecks[i]).isNil
    IN  IF ~w.err.isNil THEN Return(result, w.err)
        ELSE IF ~prefix.isNil THEN Return(Failed(result, prefix.msg), prefix)
        ELSE IF ~contentFound
        THEN Return(Failed(result, "Response does not contain expected file content analysis"), NilErr)
        ELSE Return(result, NilErr)

RunToolIntegration(model, w) ==
    IF ~w.startErr.isNil
    THEN Return(CreateBenchResult("ToolIntegration", model, w.elapsed, "", w.startErr), w.startErr)
    ELSE LET st == RangeEvents(w.events, LoopStart)
             response == Join(st.chunks, "")
             result == CreateBenchResult("ToolIntegration", model, w.elapsed, response, NilErr)
             err == ValidateResponse(response, "Nexxia")
         IN  IF st.failed
             THEN ReturnFromLoop(st, CreateBenchResult("ToolIntegration", model, w.elapsed, "", st.err), st.err)
             ELSE IF ~err.isNil THEN ReturnFromLoop(st, Failed(result, err.msg), err)
             ELSE ReturnFromLoop(st, result, NilErr)

\* the record of a failed Start carries the name of the function
RunStreamingNamesTheFunction(model, w) ==
    IF ~w.startErr.isNil
    THEN Return(CreateBenchResult("RunStreaming", model, w.elapsed, "", w.startErr), w.startErr)
    ELSE LET st == RangeEvents(w.events, LoopStart)
             finalContent == Join(st.chunks, "")
             result == CreateBenchResult("Streaming", model, w.elapsed, finalContent, NilErr)
             err == ValidateResponse(finalContent, "paris")
         IN  IF st.failed
             THEN ReturnFromLoop(st, CreateBenchResult("Streaming", model, w.elapsed, "", st.err), st.err)
             ELSE IF ~err.isNil THEN ReturnFromLoop(st, Failed(result, err.msg), err)
             ELSE IF Len(st.chunks) < 2
             THEN ReturnFromLoop(st, Failed(result, "Should have received streaming chunks"), NilErr)
             ELSE ReturnFromLoop(st, result, NilErr)

RunStreaming(model, w) ==
    IF ~w.startErr.isNil
    THEN Return(CreateBenchResult("Streaming", model, w.elapsed, "", w.startErr), w.startErr)
    ELSE LET st == RangeEvents(w.events, LoopStart)
             finalContent == Join(st.chunks, "")
             result == CreateBenchResult("Streaming", model, w.elapsed, finalContent, NilErr)
             err == ValidateResponse(finalContent, "paris")
         IN  IF st.failed
             THEN ReturnFromLoop(st, CreateBenchResult("Streaming", model, w.elapsed, "", st.err), st.err)
             ELSE IF ~err.isNil THEN ReturnFromLoop(st, Failed(result, err.msg), err)
             ELSE IF Len(st.chunks) < 2
             THEN ReturnFromLoop(st, Failed(result, "Should have received streaming chunks"), NilErr)
             ELSE ReturnFromLoop(st, result, NilErr)

RunStreamingWithTools(model, w) ==
    IF ~w.startErr.isNil
    THEN Return(CreateBenchResult("StreamingWithTools", model, w.elapsed, "", w.startErr), w.startErr)
    ELSE LET st == RangeEvents(w.events, LoopStart)
             finalContent == Join(st.chunks, "")
             result == CreateBenchResult("StreamingWithTools", model, w.elapsed, finalContent, NilErr)
             err == ValidateResponse(finalContent, "Nexxia")
         IN  IF st.failed
             THEN ReturnFromLoop(st, CreateBenchResult("StreamingWithTools", model, w.elapsed, "", st.err), st.err)
             ELSE IF ~err.isNil THEN ReturnFromLoop(st, Failed(result, err.msg), err)
             ELSE IF Len(st.chunks) < 2
             THEN ReturnFromLoop(st, Failed(result, "Should have received streaming chunks"), NilErr)
             ELSE ReturnFromLoop(st, result, NilErr)

expectedElements == <<"COMPANY_ID:", "NAME:", "INVOICE_ID:", "AMOUNT:", "Nexxia", "100">>

\* the validation loop of RunTeamCoordination returns at the first element the
\* response does not contain; err.Error() on the nil that ValidateResponse
\* returns for an element present in another case is a nil dereference
RunTeamCoordination(model, w) ==
    IF ~w.startErr.isNil
    THEN Return(CreateBenchResult("TeamCoordination", model, w.elapsed, "", w.startErr), w.startErr)
    ELSE LET st == RangeEvents(w.events, LoopStart)
             response == Join(st.chunks, "")
             result == CreateBenchResult("TeamCoordination", model, w.elapsed, response, NilErr)
             missing == { i \in 1..Len(expectedElements) : ~Contains(response, expectedElements[i]) }
             first == CHOOSE i \in missing : \A k \in missing : i <= k
             err == ValidateResponse(response, expectedElements[first])
             lookupCalled == \E i \in 1..Len(st.toolCalls) : st.toolCalls[i] = "lookup"
         IN  IF st.failed
             THEN ReturnFromLoop(st, CreateBenchResult("TeamCoordination", model, w.elapsed, "", st.err), st.err)
             ELSE IF missing # {}
             THEN (IF err.isNil
                   THEN [Panic EXCEPT !.consumed = st.consumed, !.approved = st.approved]
                   ELSE ReturnFromLoop(st, Failed(result, err.msg), err))
             ELSE IF ~lookupCalled
             THEN ReturnFromLoop(st, Failed(result, "Expected lookup subagent to be called"), NilErr)
             ELSE ReturnFromLoop(st, result, NilErr)

RunMemoryPersistenceAgent(model, w) ==
    IF ~w.startErr.isNil
    THEN Return(CreateBenchResult("MemoryPersistence", model, w.elapsed, "", w.startErr), w.startErr)
    ELSE LET st == RangeEvents(w.events, LoopStart)
             toolOrder == st.toolCalls
             saveCount == Cardinality({ i \in 1..Len(toolOrder) : toolOrder[i] = "save_memory" })
             finalContent == Join(st.chunks, "")
             result == CreateBenchResult("MemoryPersistence", model, w.elapsed, finalContent, NilErr)
             errCompany  == ValidateResponse(finalContent, "nexxia")
             errSupplier == ValidateResponse(finalContent, "phoenix")
             companyCalled  == \E i \in 1..Len(toolOrder) : toolOrder[i] = "lookup_company"
             supplierCalled == \E i \in 1..Len(toolOrder) : toolOrder[i] = "lookup_company_supplier"
         IN  IF st.failed
             THEN ReturnFromLoop(st, CreateBenchResult("MemoryPersistence", model, w.elapsed, "", st.err), st.err)
             ELSE IF ~errCompany.isNil
             THEN ReturnFromLoop(st, Failed(result, "Memory should include company result (Nexxia)"), errCompany)
             ELSE IF ~errSupplier.isNil
             THEN ReturnFromLoop(st, Failed(result, "Memory should include supplier result (Phoenix)"), errSupplier)
             ELSE IF ~companyCalled
             THEN ReturnFromLoop(st, Failed(result, "lookup_company subagent should be called"), NilErr)
             ELSE IF ~supplierCalled
             THEN ReturnFromLoop(st, Failed(result, "lookup_company_supplier subagent should be called"), NilErr)
             ELSE IF saveCount < 2
             THEN ReturnFromLoop(st, Failed(result, "save_memory should be called at least twice"), NilErr)
             ELSE ReturnFromLoop(st, result, NilErr)

\* the run definitions of RunConcurrentRuns
runs == << [name |-> "tool call request", expectsTool |-> TRUE],
           [name |-> "simple question", expectsTool |-> FALSE],
           [name |-> "another simple question", expectsTool |-> FALSE] >>

\* the error of a Wait is dropped and its empty response is kept
RunConcurrentRunsTakesWaitErrorAsEmpty(model, w) ==
    LET startFailed == { i \in 1..Len(runs) : ~w.starts[i].isNil }
        s == CHOOSE i \in startFailed : \A k \in startFailed : i <= k
        agentRuns == 1..Len(runs)
        waitFailed == { i \in agentRuns : ~w.waits[i].err.isNil }
        f == CHOOSE i \in waitFailed : \A k \in waitFailed : i <= k
        responses == [i \in agentRuns |-> w.waits[i].response]
        foundToolCall == \E i \in 1..Len(responses) : Contains(responses[i], "Nexxia")
        bad == { i \in 1..Len(responses) :
                    Contains(responses[i], "Error:") \/ responses[i] = "" }
        b == CHOOSE i \in bad : \A k \in bad : i <= k
        blank == CreateBenchResult("ConcurrentRuns", model, w.elapsed, "", NilErr)
        allResponses == Join(responses, " | ")
    IN  IF startFailed # {}
        THEN Return([CreateBenchResult("ConcurrentRuns", model, w.elapsed, "", w.starts[s])
                        EXCEPT !.ErrorMessage = "Failed to start run: " \o w.starts[s].msg],
                    w.starts[s])
        ELSE IF Len(responses) # Len(runs)
        THEN Return(Failed(blank, "Should have responses for all runs"), NilErr)
        ELSE IF ~foundToolCall
        THEN Return(Failed(blank, "Should have found a response with tool call result"), NilErr)
        ELSE IF bad # {}
        THEN (IF Contains(responses[b], "Error:")
              THEN Return(Failed(blank, "Run should not contain error"), NilErr)
              ELSE Return(Failed(blank, "Run should have non-empty response"), NilErr))
        ELSE Return(CreateBenchResult("ConcurrentRuns", model, w.elapsed, allResponses, NilErr), NilErr)

\* w.starts[i]: the error of the i-th agent.Start; w.waits[i]: what Wait returns
\* for the i-th run
RunConcurrentRuns(model, w) ==
    LET startFailed == { i \in 1..Len(runs) : ~w.starts[i].isNil }
        s == CHOOSE i \in startFailed : \A k \in startFailed : i <= k
        agentRuns == 1..Len(runs)
        waitFailed == { i \in agentRuns : ~w.waits[i].err.isNil }
        f == CHOOSE i \in waitFailed : \A k \in waitFailed : i <= k
        responses == [i \in agentRuns |-> w.waits[i].response]
        foundToolCall == \E i \in 1..Len(responses) : Contains(responses[i], "Nexxia")
        bad == { i \in 1..Len(responses) :
                    Contains(responses[i], "Error:") \/ responses[i] = "" }
        b == CHOOSE i \in bad : \A k \in bad : i <= k
        blank == CreateBenchResult("ConcurrentRuns", model, w.elapsed, "", NilErr)
        allResponses == Join(responses, " | ")
    IN  IF startFailed # {}
        THEN Return([CreateBenchResult("ConcurrentRuns", model, w.elapsed, "", w.starts[s])
                        EXCEPT !.ErrorMessage = "Failed to start run: " \o w.starts[s].msg],
                    w.starts[s])
        ELSE IF waitFailed # {}
        THEN Return([CreateBenchResult("ConcurrentRuns", model, w.elapsed, "", w.waits[f].err)
                        EXCEPT !.ErrorMessage = "Wait for run failed: " \o w.waits[f].err.msg],
                    w.waits[f].err)
        ELSE IF Len(responses) # Len(runs)
        THEN Return(Failed(blank, "Should have responses for all runs"), NilErr)
        ELSE IF ~foundToolCall
        THEN Return(Failed(blank, "Should have found a response with tool call result"), NilErr)
        ELSE IF bad # {}
        THEN (IF Contains(responses[b], "Error:")
              THEN Return(Failed(blank, "Run should not contain error"), NilErr)
              ELSE Return(Failed(blank, "Run should have non-empty response"), NilErr))
        ELSE Return(CreateBenchResult("ConcurrentRuns", model, w.elapsed, allResponses, NilErr), NilErr)

\* strconv: a natural number in decimal
RECURSIVE IntToStr(_)
IntToStr(n) ==
    IF n < 10 THEN SubSeq("0123456789", n + 1, n + 1)
    ELSE IntToStr(n \div 10) \o SubSeq("0123456789", (n % 10) + 1, (n % 10) + 1)

\* fmt's %.1f of a quantity given in thousandths (no value drawn lies on a tie)
FormatOneDecimal(thousandths) ==
    LET tenths == (thousandths + 50) \div 100
    IN  IntToStr(tenths \div 10) \o "." \o IntToStr(tenths % 10)

\* testAgentVariation: w.passRate is the evaluation summary's pass rate, in
\* thousandths of a percent; an ErrorEvent is counted and the loop goes on
testAgentVariation(w) ==
    LET contents == SelectSeq(w.events, LAMBDA e : e.type = "content")
        errors   == SelectSeq(w.events, LAMBDA e : e.type = "error")
    IN  IF ~w.startErr.isNil
        THEN [PassRate |-> 0, ErrorCount |-> 1, Content |-> "", Success |-> FALSE]
        ELSE [PassRate   |-> w.passRate,
              ErrorCount |-> Len(errors),
              Content    |-> IF Len(contents) = 0 THEN "" ELSE contents[Len(contents)].Content,
              Success    |-> w.passRate >= 60000]

RunMultiAgentChain(model, w) ==
    LET agentResult == testAgentVariation(w)
        result == [CreateBenchResult("MultiAgentChain", model, w.elapsed, agentResult.Content, NilErr)
                      EXCEPT !.Success = agentResult.Success]
    IN  IF ~agentResult.Success
        THEN Return([result EXCEPT !.ErrorMessage =
                        "Test failed with " \o FormatOneDecimal(agentResult.PassRate) \o "% pass rate"],
                    NilErr)
        ELSE Return(result, NilErr)

RunMultiAgentVariationsWrapper(model, w) ==
    Return([CreateBenchResult("MultiAgentVariations", model, w.elapsed,
                              "Variations test completed", NilErr) EXCEPT !.Success = TRUE],
           NilErr)

\* testCase.RunFunction(model)
CallRunFunction(f, model, w) ==
    CASE f = "RunSimpleAgent"                 -> RunSimpleAgent(model, w)
      [] f = "RunToolIntegration"             -> RunToolIntegration(model, w)
      [] f = "RunTeamCoordination"            -> RunTeamCoordination(model, w)
      [] f = "RunFileAttachmentsAgent"        -> RunFileAttachmentsAgent(model, w)
      [] f = "RunMultiAgentChain"             -> RunMultiAgentChain(model, w)
      [] f = "RunMultiAgentVariationsWrapper" -> RunMultiAgentVariationsWrapper(model, w)
      [] f = "RunConcurrentRuns"              -> RunConcurrentRuns(model, w)
      [] f = "RunStreaming"                   -> RunStreaming(model, w)
      [] f = "RunStreamingWithTools"          -> RunStreamingWithTools(model, w)
      [] f = "RunMemoryPersistenceAgent"      -> RunMemoryPersistenceAgent(model, w)

----------------------------------------------------------------------------
(* createModel on its own: SpecResolve calls it once on a drawn name.      *)

TableNames == { modelsTable[i].Name : i \in 1..Len(modelsTable) }

NonEmptyPrefixes(s) == { SubSeq(s, 1, k) : k \in 1..Len(s) }

\* what a user appends to a family name: a size tag, a version, nothing
NameSuffixes == {"", "3:8b", "-2024", "x"}

\* the names main can pass: non-empty, without white space (strings.Fields)
ResolveNames ==
    UNION { NonEmptyPrefixes(n) : n \in TableNames }
    \cup { n \o sfx : n \in TableNames, sfx \in NameSuffixes }
    \cup {"unknown-model-xyz", "GPT-4o", "o-gpt"}

NoOutput == [model |-> NilModel, invoked |-> <<>>]

ResolveInit ==
    /\ phase = "in"
    /\ input \in [name : ResolveNames, env : Environments]
    /\ output = NoOutput
    /\ MainStart

ResolveCall ==
    /\ phase = "in"
    /\ output' = createModel(input.name, input.env)
    /\ phase' = "out"
    /\ UNCHANGED <<input, mainVars>>

ResolveNext == ResolveCall

SpecResolve == ResolveInit /\ [][ResolveNext]_vars

ExactEntries(name)  == { i \in 1..Len(modelsTable) : modelsTable[i].Name = name }
PrefixEntries(name) == { i \in 1..Len(modelsTable) : HasPrefix(name, modelsTable[i].Name) }
Lowest(S) == CHOOSE i \in S : \A k \in S : i <= k

\* C4: createModel invokes the provider of the entry whose Name equals the name
\* whenever there is one; only when none equals it, the provider of the first
\* entry, in table order, whose Name is a prefix of the name.
C4_ExactThenFirstPrefix ==
    phase = "out" =>
        /\ ExactEntries(input.name) # {} =>
              /\ Len(output.invoked) = 1
              /\ output.invoked[1].entry \in ExactEntries(input.name)
              /\ output.invoked[1].arg = input.name
        /\ (ExactEntries(input.name) = {} /\ PrefixEntries(input.name) # {}) =>
              /\ Len(output.invoked) = 1
              /\ output.invoked[1].entry = Lowest(PrefixEntries(input.name))
              /\ output.invoked[1].arg = input.name

\* "gpt-4o" has returned, resolved by the "gpt-4o" entry although "gpt" prefixes it too
C4_Witness ==
    /\ phase = "out"
    /\ input.name = "gpt-4o"
    /\ PrefixEntries(input.name) = {2, 3}
    /\ output.invoked = << [entry |-> 2, arg |-> "gpt-4o"] >>

\* C5: every call of createModel returns, with nil or a handle; for a name no
\* entry equals or prefixes it returns nil and invokes no provider.
C5_UnknownNameIsNil ==
    phase = "out" =>
        /\ Len(output.invoked) <= 1
        /\ output.model = NilModel \/ output.model.ModelName = input.name
        /\ (ExactEntries(input.name) = {} /\ PrefixEntries(input.name) = {}) =>
              (output.model = NilModel /\ output.invoked = <<>>)

\* "unknown-model-xyz" has returned nil
C5_Witness ==
    /\ phase = "out"
    /\ input.name = "unknown-model-xyz"
    /\ output.model = NilModel
    /\ output.invoked = <<>>

----------------------------------------------------------------------------
(* The capability registry and filterCapabilities.                         *)

capabilities == <<
    [Name |-> "SimpleAgent",          RunFunction |-> "RunSimpleAgent"],
    [Name |-> "ToolIntegration",      RunFunction |-> "RunToolIntegration"],
    [Name |-> "TeamCoordination",     RunFunction |-> "RunTeamCoordination"],
    [Name |-> "FileAttachments",      RunFunction |-> "RunFileAttachmentsAgent"],
    [Name |-> "MultiAgentChain",      RunFunction |-> "RunMultiAgentChain"],
    [Name |-> "MultiAgentVariations", RunFunction |-> "RunMultiAgentVariationsWrapper"],
    [Name |-> "ConcurrentRuns",       RunFunction |-> "RunConcurrentRuns"],
    [Name |-> "Streaming",            RunFunction |-> "RunStreaming"],
    [Name |-> "StreamingWithTools",   RunFunction |-> "RunStreamingWithTools"],
    [Name |-> "MemoryPersistence",    RunFunction |-> "RunMemoryPersistenceAgent"] >>

\* a function that either returns a value or ends the process with os.Exit(status)
Returned(v)  == [exited |-> FALSE, status |-> 0, value |-> v]
Exited(code) == [exited |-> TRUE, status |-> code, value |-> <<>>]

\* testNames after the trimming loop
TrimAll(names) == [i \in 1..Len(names) |-> TrimSpace(names[i])]

\* the comparison is strings.Compare-equal instead of EqualFold
filterCapabilitiesCaseSensitive(testsFlag) ==
    IF testsFlag = "" THEN Returned(capabilities)
    ELSE LET testNames == TrimAll(Split(testsFlag, ","))
             Wanted(c) == \E i \in 1..Len(testNames) : c.Name = testNames[i]
             filtered  == SelectSeq(capabilities, Wanted)
         IN  IF Len(filtered) = 0 THEN Exited(1) ELSE Returned(filtered)

\* the loops are nested the other way round: for each requested name, every
\* capability it matches is appended
RECURSIVE AppendPerName(_, _)
AppendPerName(testNames, acc) ==
    IF Len(testNames) = 0 THEN acc
    ELSE LET Wanted(c) == EqualFold(c.Name, Head(testNames))
         IN  AppendPerName(Tail(testNames), acc \o SelectSeq(capabilities, Wanted))

filterCapabilitiesRequestOrder(testsFlag) ==
    IF testsFlag = "" THEN Returned(capabilities)
    ELSE LET filtered == AppendPerName(TrimAll(Split(testsFlag, ",")), <<>>)
         IN  IF Len(filtered) = 0 THEN Exited(1) ELSE Returned(filtered)

\* the early return for the empty flag is missing
filterCapabilitiesNoEarlyReturn(testsFlag) ==
    LET testNames == TrimAll(Split(testsFlag, ","))
        Wanted(c) == \E i \in 1..Len(testNames) : EqualFold(c.Name, testNames[i])
        filtered  == SelectSeq(capabilities, Wanted)
    IN  IF Len(filtered) = 0 THEN Exited(1) ELSE Returned(filtered)

\* the len(filtered) == 0 exit is missing
filterCapabilitiesReturnsEmpty(testsFlag) ==
    IF testsFlag = "" THEN Returned(capabilities)
    ELSE LET testNames == TrimAll(Split(testsFlag, ","))
             Wanted(c) == \E i \in 1..Len(testNames) : EqualFold(c.Name, testNames[i])
         IN  Returned(SelectSeq(capabilities, Wanted))

filterCapabilities(testsFlag) ==
    IF testsFlag = "" THEN Returned(capabilities)
    ELSE LET testNames == TrimAll(Split(testsFlag, ","))
             \* the inner loop with its break: is there a requested name that folds to c.Name
             Wanted(c) == \E i \in 1..Len(testNames) : EqualFold(c.Name, testNames[i])
             filtered  == SelectSeq(capabilities, Wanted)
         IN  IF Len(filtered) = 0 THEN Exited(1) ELSE Returned(filtered)

----------------------------------------------------------------------------
(* filterCapabilities on its own: SpecFilter calls it on two -test values  *)
(* that request the same names (in another case, order or multiplicity),   *)
(* one process run each.                                                   *)

\* the most comma-separated pieces in a drawn -test value
MaxTests == 2

TestTokens == {"SimpleAgent", "simpleagent", "STREAMING", " Streaming",
               "streamingwithtools ", "nosuch", ""}

TestFlags ==
    { Join(ts, ",") : ts \in UNION { [1..n -> TestTokens] : n \in 0..MaxTests } }

\* the names a -test value asks for, white space and case aside
RequestedNames(flag) ==
    { ToLower(TrimSpace(Split(flag, ",")[i])) : i \in 1..Len(Split(flag, ",")) }

\* RequestedNames of every drawn value, computed once
Requested == [flag \in TestFlags |-> RequestedNames(flag)]

FilterInit ==
    /\ phase = "in"
    /\ input \in { p \in TestFlags \X TestFlags : Requested[p[1]] = Requested[p[2]] }
    /\ output = <<>>
    /\ MainStart

FilterCall ==
    /\ phase = "in"
    /\ output' = Append(output, filterCapabilities(input[Len(output) + 1]))
    /\ phase' = IF Len(output') = Len(input) THEN "out" ELSE "in"
    /\ UNCHANGED <<input, mainVars>>

FilterNext == FilterCall

SpecFilter == FilterInit /\ [][FilterNext]_vars

Names(caps) == [i \in 1..Len(caps) |-> caps[i].Name]

RegistryNames ==
    << "SimpleAgent", "ToolIntegration", "TeamCoordination", "FileAttachments",
       "MultiAgentChain", "MultiAgentVariations", "ConcurrentRuns", "Streaming",
       "StreamingWithTools", "MemoryPersistence" >>

\* the registry names, case folded
FoldedRegistryNames == [i \in 1..Len(RegistryNames) |-> ToLower(RegistryNames[i])]

RegistryIndex(name) == CHOOSE i \in 1..Len(RegistryNames) : RegistryNames[i] = name

\* C6: with an empty -test value filterCapabilities returns the whole registry,
\* unchanged and in registration order.
C6_EmptyFlagReturnsRegistry ==
    \A k \in 1..Len(output) :
        input[k] = "" =>
            /\ ~output[k].exited
            /\ output[k].value = capabilities
            /\ Names(output[k].value) = RegistryNames

\* the empty -test value has been filtered and all ten capabilities came back
C6_Witness ==
    /\ Len(output) >= 1
    /\ input[1] = ""
    /\ Len(output[1].value) = 10
    /\ output[1].value[10].Name = "MemoryPersistence"

\* C7: two -test values that differ only in the case of their letters select
\* identical capability lists (and end the process alike).
C7_CaseInsensitive ==
    (phase = "out" /\ EqualFold(input[1], input[2])) => output[1] = output[2]

\* "simpleagent" and "SimpleAgent" have both been filtered to <<SimpleAgent>>
C7_Witness ==
    /\ phase = "out"
    /\ input = << "simpleagent", "SimpleAgent" >>
    /\ Names(output[1].value) = << "SimpleAgent" >>
    /\ output[2] = output[1]

\* C8: for a non-empty -test value the list returned is a subsequence of the
\* registry in registry order (so no capability twice), it holds exactly the
\* capabilities whose name some requested name folds to, and it does not depend
\* on the order or the multiplicity of the requested names.
C8_RegistryOrderSubsequence ==
    /\ \A k \in 1..Len(output) :
          (input[k] # "" /\ ~output[k].exited) =>
              LET got == Names(output[k].value)
              IN  /\ \A a \in 1..Len(got) : \E i \in 1..Len(RegistryNames) : got[a] = RegistryNames[i]
                  /\ \A a, b \in 1..Len(got) :
                        a < b => RegistryIndex(got[a]) < RegistryIndex(got[b])
                  /\ \A i \in 1..Len(RegistryNames) :
                        (\E a \in 1..Len(got) : got[a] = RegistryNames[i])
                            <=> FoldedRegistryNames[i] \in Requested[input[k]]
    /\ (phase = "out" /\ input[1] # "" /\ input[2] # "") => output[1] = output[2]

\* Streaming was requested before SimpleAgent in one value and after it in the
\* other: both lists are SimpleAgent, Streaming
C8_Witness ==
    /\ phase = "out"
    /\ input = << "STREAMING,simpleagent", "simpleagent, Streaming" >>
    /\ Names(output[1].value) = << "SimpleAgent", "Streaming" >>
    /\ Names(output[2].value) = << "SimpleAgent", "Streaming" >>

\* C9: filterCapabilities never returns an empty list: a non-empty -test value
\* that matches no registry name ends the process with status 1.
C9_NoMatchExits ==
    \A k \in 1..Len(output) :
        /\ ~output[k].exited => Len(output[k].value) > 0
        /\ output[k].exited => output[k].status = 1
        /\ (/\ input[k] # ""
            /\ \A i \in 1..Len(RegistryNames) :
                  FoldedRegistryNames[i] \notin Requested[input[k]])
              => (output[k].exited /\ output[k].status = 1)

\* "nosuch" has been filtered: the process exited with status 1
C9_Witness ==
    /\ Len(output) >= 1
    /\ input[1] = "nosuch"
    /\ output[1] = Exited(1)

----------------------------------------------------------------------------
(* What the framework may do during one call of each capability function.  *)

\* the longest event sequence enumerated exhaustively
MaxEvents == 3

EventSeqs(alphabet) == UNION { [1..n -> alphabet] : n \in 0..MaxEvents }

AnError == NewError("model call failed")

ExecuteWorlds(responses) ==
    { [response |-> r, err |-> NilErr, elapsed |-> d] : r \in responses, d \in Milliseconds }
    \cup { [response |-> "", err |-> e, elapsed |-> d] : e \in FrameworkErrors, d \in Milliseconds }

StartWorlds(eventSeqs) ==
    { [startErr |-> NilErr, events |-> ev, elapsed |-> d] : ev \in eventSeqs, d \in Milliseconds }
    \cup { [startErr |-> e, events |-> <<>>, elapsed |-> d] : e \in FrameworkErrors, d \in Milliseconds }

CanonicalLine == "COMPANY_ID: COMP-001; NAME: Nexxia; INVOICE_ID: INV-1001; AMOUNT: 100"

\* a full run of the memory plan, and the same with one save only
MemoryScenarios ==
    { << ToolEvent("lookup_company"), ToolEvent("save_memory"),
         ToolEvent("lookup_company_supplier"), ToolEvent("save_memory"),
         ContentEvent("COMPANY: Nexxia; SUPPLIER: Phoenix") >>,
      << ToolEvent("lookup_company"), ToolEvent("lookup_company_supplier"),
         ToolEvent("save_memory"), ContentEvent("COMPANY: Nexxia; SUPPLIER: Phoenix") >>,
      << ToolEvent("lookup_company"), ToolEvent("save_memory"), ApprovalEvent("ap-1"),
         ToolEvent("save_memory"), ContentEvent("COMPANY: Nexxia; "),
         ContentEvent("SUPPLIER: Phoenix") >> }

WaitOutcomes ==
    { [response |-> r, err |-> NilErr] : r \in {"Nexxia", "Paris", "", "Error: tool failed"} }
    \cup { [response |-> "", err |-> AnError] }

ConcurrentWorlds ==
    { [starts |-> <<NilErr, NilErr, NilErr>>, waits |-> ws, elapsed |-> d] :
          ws \in [1..Len(runs) -> WaitOutcomes], d \in Milliseconds }
    \cup { [starts |-> ss, waits |-> [i \in 1..Len(runs) |-> [response |-> "", err |-> NilErr]],
            elapsed |-> d] :
          ss \in [1..Len(runs) -> {NilErr, AnError}] \ {<<NilErr, NilErr, NilErr>>},
          d \in Milliseconds }

ChainWorlds ==
    { [startErr |-> NilErr, events |-> ev, passRate |-> p, elapsed |-> d] :
          ev \in EventSeqs({ContentEvent("| Expert | Company | ID |"), ErrorEvent(AnError)}),
          p \in {0, 59960, 60000, 100000}, d \in Milliseconds }
    \cup { [startErr |-> e, events |-> <<>>, passRate |-> 0, elapsed |-> d] :
          e \in FrameworkErrors, d \in Milliseconds }

Worlds(f) ==
    CASE f = "RunSimpleAgent" ->
            ExecuteWorlds({"The capital of Australia is Canberra.", "CANBERRA", "Sydney", ""})
      [] f = "RunFileAttachmentsAgent" ->
            ExecuteWorlds({"SUCCESS: the file is about machine learning.",
                           "success: it holds Sample Content", "SUCCESS: a text file",
                           "I cannot access the file", ""})
      [] f = "RunToolIntegration" ->
            StartWorlds(EventSeqs({ContentEvent("The company is "), ContentEvent("Nexxia"),
                                   ToolEvent("lookup_company_name"), ApprovalEvent("ap-1"),
                                   ErrorEvent(AnError)}))
      [] f = "RunStreaming" ->
            StartWorlds(EventSeqs({ContentEvent("Paris"), ContentEvent(" is the capital of France."),
                                   ContentEvent("Lyon"), ApprovalEvent("ap-1"),
                                   ErrorEvent(AnError)}))
      [] f = "RunStreamingWithTools" ->
            StartWorlds(EventSeqs({ContentEvent("The company is "), ContentEvent("Nexxia"),
                                   ToolEvent("lookup_company_name"), ApprovalEvent("ap-1"),
                                   ErrorEvent(AnError)}))
      [] f = "RunTeamCoordination" ->
            StartWorlds(EventSeqs({ContentEvent(CanonicalLine), ContentEvent(ToLower(CanonicalLine)),
                                   ToolEvent("agent_lookup_company_by_name"), ToolEvent("lookup"),
                                   ApprovalEvent("ap-1"), ErrorEvent(AnError)}))
      [] f = "RunMemoryPersistenceAgent" ->
            StartWorlds(MemoryScenarios \cup
                        EventSeqs({ContentEvent("COMPANY: Nexxia; "), ContentEvent("SUPPLIER: Phoenix"),
                                   ToolEvent("lookup_company"), ToolEvent("lookup_company_supplier"),
                                   ToolEvent("save_memory"), ErrorEvent(AnError)}))
      [] f = "RunConcurrentRuns" -> ConcurrentWorlds
      [] f = "RunMultiAgentChain" -> ChainWorlds
      [] f = "RunMultiAgentVariationsWrapper" -> { [elapsed |-> d] : d \in Milliseconds }

----------------------------------------------------------------------------
(* One capability function on its own: SpecCaps calls the RunFunction of a *)
(* drawn capability once, against a drawn model and framework behaviour.   *)

ModelHandles == { NewModel("openai", "gpt-4o"), NewModel("ollama", "qwen3:8b") }

CapInputs ==
    UNION { { [cap |-> capabilities[i], model |-> m, w |-> w] :
                  m \in ModelHandles, w \in Worlds(capabilities[i].RunFunction) } :
            i \in 1..Len(capabilities) }

CapsInit ==
    /\ phase = "in"
    /\ input \in CapInputs
    /\ output = Return(ZeroResult, NilErr)
    /\ MainStart

CapsCall ==
    /\ phase = "in"
    /\ output' = CallRunFunction(input.cap.RunFunction, input.model, input.w)
    /\ phase' = "out"
    /\ UNCHANGED <<input, mainVars>>

CapsNext == CapsCall

SpecCaps == CapsInit /\ [][CapsNext]_vars

\* C2: every BenchResult a capability function returns, on any return path,
\* has Success true exactly when its ErrorMessage is the empty string.
C2_SuccessIffNoMessage ==
    (phase = "out" /\ ~output.panicked) =>
        (output.result.Success <=> output.result.ErrorMessage = "")

\* RunStreaming has returned a failed record with a nil error: the path that
\* sets Success and ErrorMessage by hand after a single chunk
C2_Witness ==
    /\ phase = "out"
    /\ input.cap.Name = "Streaming"
    /\ ~output.panicked
    /\ output.err.isNil
    /\ ~output.result.Success
    /\ output.result.ErrorMessage = "Should have received streaming chunks"

----------------------------------------------------------------------------
(* generateComparisonReport.  The file is kept as its lines: each element   *)
(* is the text of one "\n"-terminated line of comparison_report.md.         *)

\* the two emoji of the status cells, written as their code points
WhiteHeavyCheckMark == "U+2705"
CrossMark == "U+274C"
BarChart == "U+1F4CA"

\* the line printed once the report is on disk
ReportGenerated == BarChart \o " Comparison report generated: comparison_report.md"

\* all the records of the matrix, model by model, record by record
RECURSIVE Flatten(_)
Flatten(matrix) ==
    IF Len(matrix) = 0 THEN <<>> ELSE Head(matrix) \o Flatten(Tail(matrix))

\* the keys of allModels and of allCapabilities after the grouping loop
allModels(matrix) == { Flatten(matrix)[i].ModelName : i \in 1..Len(Flatten(matrix)) }
allCapabilities(matrix) == { Flatten(matrix)[i].TestCase : i \in 1..Len(Flatten(matrix)) }

\* the positions of the records of (capability, model) in the matrix
RecordsOf(matrix, capability, model) ==
    { i \in 1..Len(Flatten(matrix)) :
        /\ Flatten(matrix)[i].TestCase = capability
        /\ Flatten(matrix)[i].ModelName = model }

\* the first record of a pair is kept and later ones are dropped
testGroupsKeepsFirst(matrix, capability, model) ==
    LET at == RecordsOf(matrix, capability, model)
    IN  IF at = {} THEN [exists |-> FALSE, result |-> ZeroResult]
        ELSE [exists |-> TRUE,
              result |-> Flatten(matrix)[CHOOSE i \in at : \A k \in at : i <= k]]

\* result, exists := testGroups[capability][model]: every assignment of the
\* grouping loop overwrites the entry, so the last record of the pair stays
testGroups(matrix, capability, model) ==
    LET at == RecordsOf(matrix, capability, model)
    IN  IF at = {} THEN [exists |-> FALSE, result |-> ZeroResult]
        ELSE [exists |-> TRUE,
              result |-> Flatten(matrix)[CHOOSE i \in at : \A k \in at : k <= i]]

\* `for key := range aMap` visits the keys in an order the runtime picks
RangeOrders(keys) ==
    { order \in [1..Cardinality(keys) -> keys] :
        \A i, j \in 1..Cardinality(keys) : i # j => order[i] # order[j] }

\* the text appended for each element, one after the other
RECURSIVE Concat(_)
Concat(pieces) ==
    IF Len(pieces) = 0 THEN "" ELSE Head(pieces) \o Concat(Tail(pieces))

\* a pair reads Success as soon as one of its records succeeded
StatusCellShowsAnySuccess(matrix, capability, model) ==
    LET at == RecordsOf(matrix, capability, model)
    IN  IF at = {} THEN " | N/A"
        ELSE IF \E i \in at : Flatten(matrix)[i].Success
        THEN " | " \o WhiteHeavyCheckMark \o " Success"
        ELSE " | " \o CrossMark \o " Failure"

StatusCell(matrix, capability, model) ==
    LET g == testGroups(matrix, capability, model)
    IN  IF ~g.exists THEN " | N/A"
        ELSE IF g.result.Success THEN " | " \o WhiteHeavyCheckMark \o " Success"
        ELSE " | " \o CrossMark \o " Failure"

\* a pair without a record gets no timing cell at all
TimingCellSkipsMissing(matrix, capability, model) ==
    LET g == testGroups(matrix, capability, model)
    IN  IF ~g.exists THEN ""
        ELSE " | " \o FormatOneDecimal(g.result.Duration) \o "s"

\* Duration.Seconds() under %.1f; Duration is in milliseconds
TimingCell(matrix, capability, model) ==
    LET g == testGroups(matrix, capability, model)
    IN  IF ~g.exists THEN " | N/A"
        ELSE " | " \o FormatOneDecimal(g.result.Duration) \o "s"

\* the lines of the report for the orders in which the two maps were ranged
ReportLines(matrix, modelOrder, capabilityOrder, now) ==
    LET header == "| Capability"
                  \o Concat([i \in 1..Len(modelOrder) |-> " | " \o modelOrder[i]]) \o " |"
        separator == "|---" \o Concat([i \in 1..Len(modelOrder) |-> "|---"]) \o "|"
        StatusRow(c) == "| " \o c
                        \o Concat([i \in 1..Len(modelOrder) |-> StatusCell(matrix, c, modelOrder[i])])
                        \o " |"
        TimingRow(c) == "| " \o c \o " (timing)"
                        \o Concat([i \in 1..Len(modelOrder) |-> TimingCell(matrix, c, modelOrder[i])])
                        \o " |"
        rows == [k \in 1..(2 * Len(capabilityOrder)) |->
                    IF k % 2 = 1 THEN StatusRow(capabilityOrder[(k + 1) \div 2])
                    ELSE TimingRow(capabilityOrder[k \div 2])]
    IN  << "# Model Comparison Report", "", "Generated on: " \o now, "", header, separator >>
        \o rows

\* time.Now().Format("2006-01-02 15:04:05")
Timestamps == {"2025-03-01 09:30:00", "2025-03-01 09:30:01"}

\* os.WriteFile: the file is written; or the open fails and the directory is
\* as before; or a write fails after the file was created or truncated
WriteFileOutcomes(lines, before) ==
    { [err |-> NilErr, file |-> [exists |-> TRUE, lines |-> lines]],
      [err |-> NewError("open comparison_report.md: permission denied"), file |-> before],
      [err |-> NewError("write comparison_report.md: no space left on device"),
       file |-> [exists |-> TRUE, lines |-> <<>>]] }

\* the success message is printed whatever os.WriteFile returned
generateComparisonReportAlwaysReportsSuccess(matrix, before) ==
    IF Len(matrix) = 0 THEN { [file |-> before, err |-> NilErr, printed |-> <<>>] }
    ELSE { [file    |-> w.file,
            err     |-> w.err,
            printed |-> << ReportGenerated >>] :
           w \in UNION { WriteFileOutcomes(ReportLines(matrix, ms, cs, now), before) :
                           ms \in RangeOrders(allModels(matrix)),
                           cs \in RangeOrders(allCapabilities(matrix)),
                           now \in Timestamps } }

\* generateComparisonReport(results): every outcome it can have, as the file
\* it leaves, the error os.WriteFile returned and the lines it prints
generateComparisonReport(matrix, before) ==
    IF Len(matrix) = 0 THEN { [file |-> before, err |-> NilErr, printed |-> <<>>] }
    ELSE { [file    |-> w.file,
            err     |-> w.err,
            printed |-> IF w.err.isNil
                        THEN << ReportGenerated >>
                        ELSE << "Error writing comparison report: " \o w.err.msg >>] :
           w \in UNION { WriteFileOutcomes(ReportLines(matrix, ms, cs, now), before) :
                           ms \in RangeOrders(allModels(matrix)),
                           cs \in RangeOrders(allCapabilities(matrix)),
                           now \in Timestamps } }

----------------------------------------------------------------------------
(* generateComparisonReport on its own: SpecReport calls it once on a drawn *)
(* matrix.  Rows are as runModels fills them (one model per row, test cases *)
(* in registry order without repeats); two rows may be of the same model,   *)
(* and rows may hold different test cases, which is how a pair comes to     *)
(* have no record.                                                          *)

\* the most rows in a drawn matrix
MaxRows == 3

ReportRecord(testCase, modelName, success) ==
    [TestCase |-> testCase, ModelName |-> modelName, Success |-> success,
     Duration |-> IF success THEN 700 ELSE 14449,
     ResponseSize |-> IF success THEN 37 ELSE 0,
     ErrorMessage |-> IF success THEN "" ELSE "model call failed"]

ReportRows ==
    { << ReportRecord("SimpleAgent", "gpt-4o", TRUE) >>,
      << ReportRecord("SimpleAgent", "gpt-4o", FALSE) >>,
      << ReportRecord("SimpleAgent", "gpt-4o", TRUE), ReportRecord("Streaming", "gpt-4o", FALSE) >>,
      << ReportRecord("SimpleAgent", "qwen3:8b", FALSE), ReportRecord("Streaming", "qwen3:8b", TRUE) >>,
      << ReportRecord("SimpleAgent", "qwen3:8b", TRUE) >>,
      << ReportRecord("Streaming", "qwen3:8b", FALSE) >> }

Matrices == UNION { [1..n -> ReportRows] : n \in 1..MaxRows }

ReportInit ==
    /\ phase = "in"
    /\ input = <<>>
    /\ output = <<>>
    /\ modelNames = <<>>
    /\ models = <<>>
    /\ invoked = <<>>
    /\ filteredCapabilities = <<>>
    /\ index = 1
    /\ testIndex = 1
    /\ results = <<>>
    /\ allResults \in Matrices
    /\ calls = <<>>
    /\ console = <<>>
    /\ exitCode = Running
    /\ report = NoFile

ReportCall ==
    /\ phase = "in"
    /\ \E r \in generateComparisonReport(allResults, report) :
          /\ report' = r.file
          /\ console' = console \o r.printed
          /\ output' = Append(output, [file |-> r.file, err |-> r.err])
    /\ phase' = "out"
    /\ UNCHANGED <<input, modelNames, models, invoked, filteredCapabilities,
                   index, testIndex, results, allResults, calls, exitCode>>

ReportNext == ReportCall

SpecReport == ReportInit /\ [][ReportNext]_vars

\* the cells of a table line "| a | b | c |"
RowCells(line) == Split(SubSeq(line, 3, Len(line) - 2), " | ")

\* the report file holds a whole report
Written == report.exists /\ Len(report.lines) >= 6

\* the table of the report: the cells of its header line and of its data lines
Table ==
    [header |-> RowCells(report.lines[5]),
     rows   |-> [k \in 1..(Len(report.lines) - 6) |-> RowCells(report.lines[6 + k])]]

\* the columns headed by a model name, the rows labelled by a test case
ColumnsOf(table, model) == { j \in 2..Len(table.header) : table.header[j] = model }
StatusRowsOf(table, testCase) == { k \in 1..Len(table.rows) : table.rows[k][1] = testCase }
TimingRowsOf(table, testCase) ==
    { k \in 1..Len(table.rows) : table.rows[k][1] = testCase \o " (timing)" }

The(S) == CHOOSE x \in S : TRUE
StatusAt(table, testCase, model) ==
    table.rows[The(StatusRowsOf(table, testCase))][The(ColumnsOf(table, model))]
TimingAt(table, testCase, model) ==
    table.rows[The(TimingRowsOf(table, testCase))][The(ColumnsOf(table, model))]

OneCellPerPair(table, testCase, model) ==
    /\ Cardinality(ColumnsOf(table, model)) = 1
    /\ Cardinality(StatusRowsOf(table, testCase)) = 1
    /\ Cardinality(TimingRowsOf(table, testCase)) = 1

\* the matrix holds a record of (testCase, model) with this success flag
HasRecord(testCase, model, success) ==
    \E i \in RecordsOf(allResults, testCase, model) : Flatten(allResults)[i].Success = success

\* the last record of (testCase, model), in matrix order
LastRecord(testCase, model) ==
    LET at == RecordsOf(allResults, testCase, model)
    IN  Flatten(allResults)[CHOOSE i \in at : \A k \in at : k <= i]

\* C10 as stated: for every test-case name t and model name m of the matrix the
\* report has exactly one status cell at row t, column m; it reads "Success"
\* (with the check mark) if a record of (t, m) exists with Success true,
\* "Failure" (with the cross) if one exists with Success false, and "N/A" if
\* none exists; the timing cell is "N/A" exactly when the status cell is.
C10_AnyRecordDecides ==
    (phase = "out" /\ Written) =>
        LET table == Table
        IN  \A t \in allCapabilities(allResults), m \in allModels(allResults) :
                /\ OneCellPerPair(table, t, m)
                /\ HasRecord(t, m, TRUE) =>
                      StatusAt(table, t, m) = WhiteHeavyCheckMark \o " Success"
                /\ HasRecord(t, m, FALSE) =>
                      StatusAt(table, t, m) = CrossMark \o " Failure"
                /\ RecordsOf(allResults, t, m) = {} => StatusAt(table, t, m) = "N/A"
                /\ TimingAt(table, t, m) = "N/A" <=> StatusAt(table, t, m) = "N/A"

\* C10, amended: for every test-case name t and model name m of the matrix the
\* report has exactly one status cell at row t, column m; it reads "Success"
\* if the last record of (t, m) in matrix order has Success true, "Failure" if
\* that record has Success false, and "N/A" if the pair has no record; the
\* timing cell of the column is "N/A" exactly when the status cell is.
C10_LastRecordDecides ==
    (phase = "out" /\ Written) =>
        LET table == Table
        IN  \A t \in allCapabilities(allResults), m \in allModels(allResults) :
                /\ OneCellPerPair(table, t, m)
                /\ StatusAt(table, t, m) =
                      IF RecordsOf(allResults, t, m) = {} THEN "N/A"
                      ELSE IF LastRecord(t, m).Success THEN WhiteHeavyCheckMark \o " Success"
                      ELSE CrossMark \o " Failure"
                /\ TimingAt(table, t, m) = "N/A" <=> StatusAt(table, t, m) = "N/A"

\* a written report with the three kinds of status cell: a pair without a
\* record, and a model that ran a test case twice, failing the first time
C10_Witness ==
    /\ phase = "out"
    /\ Written
    /\ LET table == Table
       IN  \E t \in allCapabilities(allResults), m \in allModels(allResults) :
              /\ RecordsOf(allResults, t, m) = {}
              /\ StatusAt(table, t, m) = "N/A"
              /\ TimingAt(table, t, m) = "N/A"
              /\ \E u \in allCapabilities(allResults) :
                    /\ HasRecord(u, m, FALSE)
                    /\ StatusAt(table, u, m) = WhiteHeavyCheckMark \o " Success"
                    /\ TimingAt(table, u, m) = "0.7s"
              /\ \E n \in allModels(allResults) :
                    /\ StatusAt(table, t, n) = CrossMark \o " Failure"
                    /\ TimingAt(table, t, n) = "14.4s"

----------------------------------------------------------------------------
(* The benchmark process: main, runModels, runEvaluationMode.               *)

\* flag.Args(): no argument, a blank one, one model, two models, two names in
\* one quoted argument, an unknown name after a known one, a model named twice
ArgLists ==
    { <<>>, <<" ">>, <<"gpt-4o">>, <<"qwen3:8b", "gpt-4o">>, <<"gemini-pro qwen3:8b">>,
      <<"qwen3:8b", "nosuch">>, <<"qwen3:8b", "qwen3:8b">> }

\* values of -test that select one capability, two (in another order and
\* case than the registry's), and none
MainTestFlags == {"SimpleAgent", "streaming, TeamCoordination", "nosuch"}

CommandLines ==
    [args : ArgLists, testsFlag : MainTestFlags, evalMode : BOOLEAN, env : Environments]

\* what the framework does during one call made by the process: for each
\* capability function a run that passes and one run for each way it fails
Scenarios(f) ==
    CASE f = "RunSimpleAgent" ->
            { [response |-> "The capital of Australia is Canberra.", err |-> NilErr, elapsed |-> 700],
              [response |-> "", err |-> AnError, elapsed |-> 14449] }
      [] f = "RunFileAttachmentsAgent" ->
            { [response |-> "SUCCESS: the file is about machine learning.", err |-> NilErr, elapsed |-> 700],
              [response |-> "SUCCESS: a text file", err |-> NilErr, elapsed |-> 700],
              [response |-> "", err |-> AnError, elapsed |-> 14449] }
      [] f = "RunToolIntegration" ->
            { [startErr |-> NilErr, elapsed |-> 700,
               events |-> << ToolEvent("lookup_company_name"), ContentEvent("Nexxia") >>],
              [startErr |-> NilErr, elapsed |-> 14449, events |-> << ErrorEvent(AnError) >>] }
      [] f = "RunStreaming" ->
            { [startErr |-> NilErr, elapsed |-> 700,
               events |-> << ContentEvent("Paris"), ContentEvent(" is the capital of France.") >>],
              [startErr |-> NilErr, elapsed |-> 700, events |-> << ContentEvent("Paris") >>],
              [startErr |-> AnError, elapsed |-> 14449, events |-> <<>>] }
      [] f = "RunStreamingWithTools" ->
            { [startErr |-> NilErr, elapsed |-> 700,
               events |-> << ContentEvent("The company is "), ContentEvent("Nexxia") >>],
              [startErr |-> NilErr, elapsed |-> 700, events |-> << ContentEvent("Nexxia") >>],
              [startErr |-> AnError, elapsed |-> 14449, events |-> <<>>] }
      [] f = "RunTeamCoordination" ->
            { [startErr |-> NilErr, elapsed |-> 700,
               events |-> << ToolEvent("lookup"), ContentEvent(CanonicalLine) >>],
              [startErr |-> NilErr, elapsed |-> 14449,
               events |-> << ToolEvent("agent_lookup_company_by_name"), ContentEvent(CanonicalLine) >>],
              [startErr |-> NilErr, elapsed |-> 700,
               events |-> << ContentEvent(ToLower(CanonicalLine)) >>],
              [startErr |-> NilErr, elapsed |-> 14449, events |-> << ErrorEvent(AnError) >>] }
      [] f = "RunMemoryPersistenceAgent" ->
            { [startErr |-> NilErr, elapsed |-> 700, events |-> ev] : ev \in MemoryScenarios }
            \cup { [startErr |-> AnError, elapsed |-> 14449, events |-> <<>>] }
      [] f = "RunConcurrentRuns" ->
            { [starts |-> <<NilErr, NilErr, NilErr>>, elapsed |-> 700,
               waits |-> [i \in 1..Len(runs) |-> [response |-> "Nexxia", err |-> NilErr]]],
              [starts |-> <<NilErr, NilErr, NilErr>>, elapsed |-> 700,
               waits |-> [i \in 1..Len(runs) |-> [response |-> "Paris", err |-> NilErr]]],
              [starts |-> <<NilErr, AnError, NilErr>>, elapsed |-> 14449,
               waits |-> [i \in 1..Len(runs) |-> [response |-> "", err |-> NilErr]]] }
      [] f = "RunMultiAgentChain" ->
            { [startErr |-> NilErr, passRate |-> p, elapsed |-> 14449,
               events |-> << ContentEvent("| Expert | Company | ID |") >>] : p \in {59960, 100000} }
      [] f = "RunMultiAgentVariationsWrapper" -> { [elapsed |-> 700] }

\* one line of the console for a call of runModels, without the duration
Progress(name, err) ==
    "  " \o name \o "... " \o (IF err.isNil THEN WhiteHeavyCheckMark \o " SUCCESS"
                                            ELSE CrossMark \o " FAILED")

\* os.Exit(1)
Exit1(message) ==
    /\ console' = Append(console, message)
    /\ exitCode' = 1
    /\ phase' = "exited"

Init ==
    /\ phase = "main"
    /\ input \in CommandLines
    /\ output = <<>>
    /\ MainStart

\* main with no argument: the usage text and os.Exit(1)
mainUsage ==
    /\ phase = "main"
    /\ Len(input.args) < 1
    /\ Exit1("Usage: go run main.go [-test \"test1,test2\"] [-eval] <model_name> [model_name...]")
    /\ UNCHANGED <<input, output, modelNames, models, invoked, filteredCapabilities,
                   index, testIndex, results, allResults, calls, report>>

\* the arguments are taken as the model names, without splitting them
mainFieldsKeepsArgs ==
    /\ phase = "main"
    /\ Len(input.args) >= 1
    /\ modelNames' = input.args
    /\ index' = 1
    /\ phase' = "resolve"
    /\ UNCHANGED <<input, output, models, invoked, filteredCapabilities, testIndex,
                   results, allResults, calls, console, exitCode, report>>

\* modelNames := strings.Fields(strings.Join(args, " "))
mainFields ==
    /\ phase = "main"
    /\ Len(input.args) >= 1
    /\ modelNames' = Fields(Join(input.args, " "))
    /\ index' = 1
    /\ phase' = "resolve"
    /\ UNCHANGED <<input, output, models, invoked, filteredCapabilities, testIndex,
                   results, allResults, calls, console, exitCode, report>>

\* an unresolvable name is reported and skipped, and the loop goes on
mainCreateModelSkips ==
    /\ phase = "resolve"
    /\ index <= Len(modelNames)
    /\ LET made == createModel(modelNames[index], input.env)
       IN  /\ invoked' = invoked \o made.invoked
           /\ index' = index + 1
           /\ IF made.model = NilModel
              THEN /\ console' = Append(console, "Model unknown or missing authentication: "
                                                   \o modelNames[index])
                   /\ UNCHANGED models
              ELSE /\ models' = Append(models, made.model)
                   /\ UNCHANGED console
    /\ UNCHANGED <<phase, input, output, modelNames, filteredCapabilities, testIndex, results,
                   allResults, calls, exitCode, report>>

\* main, one iteration of `for _, name := range modelNames`
mainCreateModel ==
    /\ phase = "resolve"
    /\ index <= Len(modelNames)
    /\ LET made == createModel(modelNames[index], input.env)
       IN  /\ invoked' = invoked \o made.invoked
           /\ IF made.model = NilModel
              THEN /\ Exit1("Model unknown or missing authentication: " \o modelNames[index])
                   /\ UNCHANGED <<models, index>>
              ELSE /\ models' = Append(models, made.model)
                   /\ index' = index + 1
                   /\ UNCHANGED <<phase, console, exitCode>>
    /\ UNCHANGED <<input, output, modelNames, filteredCapabilities, testIndex, results,
                   allResults, calls, report>>

\* after the loop: len(models) == 0
mainNoModels ==
    /\ phase = "resolve"
    /\ index > Len(modelNames)
    /\ Len(models) = 0
    /\ Exit1("No valid models specified")
    /\ UNCHANGED <<input, output, modelNames, models, invoked, filteredCapabilities,
                   index, testIndex, results, allResults, calls, report>>

\* the -eval flag is not looked at: runModels is entered in every run
mainFilterIgnoresEval ==
    /\ phase = "resolve"
    /\ index > Len(modelNames)
    /\ Len(models) # 0
    /\ LET r == filterCapabilities(input.testsFlag)
       IN  IF r.exited
           THEN /\ Exit1("No matching tests found for: " \o input.testsFlag)
                /\ UNCHANGED <<filteredCapabilities, index, testIndex, results, allResults>>
           ELSE /\ filteredCapabilities' = r.value
                /\ index' = 1
                /\ testIndex' = 1
                /\ results' = <<>>
                /\ allResults' = [i \in 1..Len(models) |-> <<>>]
                /\ phase' = "runModels"
                /\ UNCHANGED <<console, exitCode>>
    /\ UNCHANGED <<input, output, modelNames, models, invoked, calls, report>>

\* filteredCapabilities := filterCapabilities(testsFlag), and the entry of
\* runEvaluationMode or runModels
mainFilter ==
    /\ phase = "resolve"
    /\ index > Len(modelNames)
    /\ Len(models) # 0
    /\ LET r == filterCapabilities(input.testsFlag)
       IN  IF r.exited
           THEN /\ Exit1("No matching tests found for: " \o input.testsFlag)
                /\ UNCHANGED <<filteredCapabilities, index, testIndex, results, allResults>>
           ELSE /\ filteredCapabilities' = r.value
                /\ index' = 1
                /\ testIndex' = 1
                /\ results' = <<>>
                /\ allResults' = IF input.evalMode THEN allResults
                                 ELSE [i \in 1..Len(models) |-> <<>>]
                /\ phase' = IF input.evalMode THEN "runEvaluationMode" ELSE "runModels"
                /\ UNCHANGED <<console, exitCode>>
    /\ UNCHANGED <<input, output, modelNames, models, invoked, calls, report>>

\* a panic that nothing recovers ends the process with status 2
Panicked ==
    /\ console' = Append(console, "panic: runtime error: invalid memory address or nil pointer dereference")
    /\ exitCode' = 2
    /\ phase' = "exited"

\* the inner loop stops at the first call that returns an error
runModelsCallStopsOnError ==
    /\ phase = "runModels"
    /\ index <= Len(models)
    /\ testIndex <= Len(filteredCapabilities)
    /\ LET testCase == filteredCapabilities[testIndex]
           model == models[index]
       IN  \E w \in Scenarios(testCase.RunFunction) :
              LET ret == CallRunFunction(testCase.RunFunction, model, w)
              IN  /\ calls' = Append(calls, [capability |-> testCase.Name, model |-> index])
                  /\ IF ret.panicked
                     THEN /\ Panicked
                          /\ UNCHANGED <<results, testIndex>>
                     ELSE /\ results' = Append(results, ret.result)
                          /\ console' = Append(console, Progress(testCase.Name, ret.err))
                          /\ testIndex' = IF ret.err.isNil THEN testIndex + 1
                                          ELSE Len(filteredCapabilities) + 1
                          /\ UNCHANGED <<phase, exitCode>>
    /\ UNCHANGED <<input, output, modelNames, models, invoked, filteredCapabilities,
                   index, allResults, report>>

\* runModels, one iteration of `for _, testCase := range capabilitiesToRun`:
\* the call, the append to results and the progress line
runModelsCall ==
    /\ phase = "runModels"
    /\ index <= Len(models)
    /\ testIndex <= Len(filteredCapabilities)
    /\ LET testCase == filteredCapabilities[testIndex]
           model == models[index]
       IN  \E w \in Scenarios(testCase.RunFunction) :
              LET ret == CallRunFunction(testCase.RunFunction, model, w)
              IN  /\ calls' = Append(calls, [capability |-> testCase.Name, model |-> index])
                  /\ IF ret.panicked
                     THEN /\ Panicked
                          /\ UNCHANGED <<results, testIndex>>
                     ELSE /\ results' = Append(results, ret.result)
                          /\ console' = Append(console, Progress(testCase.Name, ret.err))
                          /\ testIndex' = testIndex + 1
                          /\ UNCHANGED <<phase, exitCode>>
    /\ UNCHANGED <<input, output, modelNames, models, invoked, filteredCapabilities,
                   index, allResults, report>>

\* results is not emptied for the next model and carries the earlier records
runModelsRowKeepsResults ==
    /\ phase = "runModels"
    /\ index <= Len(models)
    /\ testIndex > Len(filteredCapabilities)
    /\ allResults' = [allResults EXCEPT ![index] = results]
    /\ index' = index + 1
    /\ testIndex' = 1
    /\ UNCHANGED <<phase, input, output, modelNames, models, invoked, results,
                   filteredCapabilities, calls, console, exitCode, report>>

\* runModels, the end of the inner loop: allResults[index] = results
runModelsRow ==
    /\ phase = "runModels"
    /\ index <= Len(models)
    /\ testIndex > Len(filteredCapabilities)
    /\ allResults' = [allResults EXCEPT ![index] = results]
    /\ results' = <<>>
    /\ index' = index + 1
    /\ testIndex' = 1
    /\ UNCHANGED <<phase, input, output, modelNames, models, invoked,
                   filteredCapabilities, calls, console, exitCode, report>>

\* runModels, after the loops: generateComparisonReport(allResults), then
\* main returns
runModelsReport ==
    /\ phase = "runModels"
    /\ index > Len(models)
    /\ \E r \in generateComparisonReport(allResults, report) :
          /\ report' = r.file
          /\ console' = console \o r.printed
          /\ output' = Append(output, [file |-> r.file, err |-> r.err])
    /\ exitCode' = 0
    /\ phase' = "exited"
    /\ UNCHANGED <<input, modelNames, models, invoked, filteredCapabilities,
                   index, testIndex, results, allResults, calls>>

\* runEvaluationMode, one iteration of `for _, capability := range
\* capabilitiesToRun`: no capability has an EvalFunction, so
\* runCapabilityWithEval calls the RunFunction with the first model
runEvaluationModeCall ==
    /\ phase = "runEvaluationMode"
    /\ testIndex <= Len(filteredCapabilities)
    /\ LET capability == filteredCapabilities[testIndex]
           primaryModel == models[1]
       IN  \E w \in Scenarios(capability.RunFunction) :
              LET ret == CallRunFunction(capability.RunFunction, primaryModel, w)
              IN  /\ calls' = Append(calls, [capability |-> capability.Name, model |-> 1])
                  /\ IF ret.panicked
                     THEN /\ Panicked
                          /\ UNCHANGED testIndex
                     ELSE /\ console' = Append(console,
                                 IF ~ret.err.isNil THEN CrossMark \o " Failed: " \o ret.err.msg
                                 ELSE IF ret.result.Success THEN "Result: Success"
                                 ELSE "Result: Failed - " \o ret.result.ErrorMessage)
                          /\ testIndex' = testIndex + 1
                          /\ UNCHANGED <<phase, exitCode>>
    /\ UNCHANGED <<input, output, modelNames, models, invoked, filteredCapabilities,
                   index, results, allResults, report>>

\* runEvaluationMode, after the loop: "Evaluation complete!", then main returns
runEvaluationModeDone ==
    /\ phase = "runEvaluationMode"
    /\ testIndex > Len(filteredCapabilities)
    /\ console' = Append(console, WhiteHeavyCheckMark \o " Evaluation complete!")
    /\ exitCode' = 0
    /\ phase' = "exited"
    /\ UNCHANGED <<input, output, modelNames, models, invoked, filteredCapabilities,
                   index, testIndex, results, allResults, calls, report>>

Next ==
    \/ mainUsage
    \/ mainFields
    \/ mainCreateModel
    \/ mainNoModels
    \/ mainFilter
    \/ runModelsCall
    \/ runModelsRow
    \/ runModelsReport
    \/ runEvaluationModeCall
    \/ runEvaluationModeDone

Spec == Init /\ [][Next]_vars

\* main's own steps are taken once they can be: argument parsing, model
\* resolution and filtering wait for nothing.  A call into the agent
\* framework may wait for a model for ever, so none is assumed to return.
FairSpec ==
    /\ Spec
    /\ WF_vars(mainUsage)
    /\ WF_vars(mainFields)
    /\ WF_vars(mainCreateModel)
    /\ WF_vars(mainNoModels)
    /\ WF_vars(mainFilter)

\* the calls runModels makes, in order: every capability for the first model,
\* then every capability for the second, and so on
Schedule ==
    [k \in 1..(Len(models) * Len(filteredCapabilities)) |->
        [capability |-> filteredCapabilities[((k - 1) % Len(filteredCapabilities)) + 1].Name,
         model      |-> ((k - 1) \div Len(filteredCapabilities)) + 1]]

\* the loops of runModels have finished
LoopsFinished ==
    /\ ~input.evalMode
    /\ \/ phase = "runModels" /\ index > Len(models)
       \/ phase = "exited" /\ exitCode = 0

\* C1: in runModels, whatever each call returns (an error or nil, Success true
\* or false), the calls made so far are the schedule up to the position of
\* the loops, so no returned outcome skips or repeats a call; and when the
\* loops have finished every capability was called exactly once for every
\* model and allResults has one row per model with one record per capability.
C1_EveryCapabilityOncePerModel ==
    /\ (phase = "runModels" /\ index <= Len(models)) =>
          /\ Len(calls) = (index - 1) * Len(filteredCapabilities) + (testIndex - 1)
          /\ Len(results) = testIndex - 1
          /\ \A k \in 1..Len(calls) : calls[k] = Schedule[k]
    /\ LoopsFinished =>
          /\ \A i \in 1..Len(models), c \in 1..Len(filteredCapabilities) :
                Cardinality({ k \in 1..Len(calls) :
                                calls[k] = [capability |-> filteredCapabilities[c].Name,
                                            model |-> i] }) = 1
          /\ Len(calls) = Len(models) * Len(filteredCapabilities)
          /\ Len(allResults) = Len(models)
          /\ \A i \in 1..Len(models) :
                /\ Len(allResults[i]) = Len(filteredCapabilities)
                /\ \A c \in 1..Len(filteredCapabilities) :
                      /\ allResults[i][c].TestCase = filteredCapabilities[c].Name
                      /\ allResults[i][c].ModelName = models[i].ModelName

\* two models and two capabilities, the loops finished: the first call
\* returned an error and the second a failed record with a nil error, and
\* the second model's calls were made all the same and passed
C1_Witness ==
    /\ LoopsFinished
    /\ Len(models) = 2
    /\ Len(filteredCapabilities) = 2
    /\ Len(calls) = 4
    /\ ~allResults[1][1].Success
    /\ console[1] = Progress("TeamCoordination", AnError)
    /\ ~allResults[1][2].Success
    /\ console[2] = Progress("Streaming", NilErr)
    /\ allResults[2][1].Success
    /\ allResults[2][2].Success

\* a requested name for which createModel returns nil
Unresolvable ==
    \E i \in 1..Len(Fields(Join(input.args, " "))) :
        createModel(Fields(Join(input.args, " "))[i], input.env).model = NilModel

\* C3: if a requested model name does not resolve (no table entry matches, or
\* the matched provider finds its credential absent), no RunFunction is ever
\* called, for the models resolved before it either, and the process ends,
\* with status 1.
C3_UnresolvableExitsBeforeAnyCall ==
    /\ [](Unresolvable => (calls = <<>> /\ exitCode \in {Running, 1}))
    /\ Unresolvable ~> (exitCode = 1 /\ calls = <<>>)

\* the second name matched a table entry whose provider found no credential,
\* after the first had resolved: the process has exited with status 1
C3_Witness ==
    /\ Unresolvable
    /\ exitCode = 1
    /\ Len(models) = 1
    /\ Len(invoked) = 2
    /\ modelsTable[invoked[2].entry].ProviderFunc = "openAIProvider"
    /\ input.env.OPENAI_API_KEY = ""
    /\ calls = <<>>

----------------------------------------------------------------------------
(* generateComparisonReport called twice on one matrix: output holds what   *)
(* each call left, its file and the error of its os.WriteFile.              *)

RerunCall ==
    /\ phase = "in"
    /\ \E r \in generateComparisonReport(allResults, report) :
          /\ report' = r.file
          /\ console' = console \o r.printed
          /\ output' = Append(output, [file |-> r.file, err |-> r.err])
    /\ phase' = IF Len(output') = 2 THEN "out" ELSE "in"
    /\ UNCHANGED <<input, modelNames, models, invoked, filteredCapabilities,
                   index, testIndex, results, allResults, calls, exitCode>>

RerunNext == RerunCall

SpecRerun == ReportInit /\ [][RerunNext]_vars

\* a file that holds a whole report
Whole(file) == file.exists /\ Len(file.lines) >= 6

\* the line "Generated on: ..."
TimestampLine == 3

\* C11: generateComparisonReport, run twice on the same matrix, writes the
\* same Markdown both times, the timestamp line aside: the same columns in
\* the same order and the same rows in the same order.
C11_SameReportTwice ==
    (phase = "out" /\ Whole(output[1].file) /\ Whole(output[2].file)) =>
        /\ Len(output[1].file.lines) = Len(output[2].file.lines)
        /\ \A i \in 1..Len(output[1].file.lines) :
              i # TimestampLine => output[1].file.lines[i] = output[2].file.lines[i]

\* the distinct elements of a sequence, each where it first occurs
RECURSIVE FirstSeen(_)
FirstSeen(seq) ==
    IF Len(seq) = 0 THEN <<>>
    ELSE LET before == FirstSeen(SubSeq(seq, 1, Len(seq) - 1))
             last   == seq[Len(seq)]
         IN  IF \E i \in 1..Len(before) : before[i] = last THEN before
             ELSE Append(before, last)

\* C12: the columns of the report are the model names and its row groups the
\* test-case names, each in the order in which the names are first met while
\* going over the matrix model by model, record by record.
C12_FirstSeenOrder ==
    (phase = "out" /\ Written) =>
        LET table == Table
            flat  == Flatten(allResults)
        IN  /\ SubSeq(table.header, 2, Len(table.header)) =
                  FirstSeen([i \in 1..Len(flat) |-> flat[i].ModelName])
            /\ [k \in 1..(Len(table.rows) \div 2) |-> table.rows[2 * k - 1][1]] =
                  FirstSeen([i \in 1..Len(flat) |-> flat[i].TestCase])

\* the cells of the separator line "|---|---|"
SeparatorCells(line) == Split(SubSeq(line, 2, Len(line) - 1), "|")

\* C13: the report has exactly two data rows for each distinct test-case name,
\* the status row and right after it the "(timing)" row of that test case, and
\* the header row, the separator row and every data row have the same number
\* of columns: the label column and one column for each distinct model name.
C13_TwoRowsPerTestCaseSameColumns ==
    (phase = "out" /\ Written) =>
        LET table   == Table
            columns == 1 + Cardinality(allModels(allResults))
        IN  /\ Len(table.rows) = 2 * Cardinality(allCapabilities(allResults))
            /\ \A t \in allCapabilities(allResults) :
                  \E k \in 1..(Len(table.rows) - 1) :
                      /\ StatusRowsOf(table, t) = {k}
                      /\ TimingRowsOf(table, t) = {k + 1}
            /\ Len(table.header) = columns
            /\ Len(SeparatorCells(report.lines[6])) = columns
            /\ \A k \in 1..Len(table.rows) : Len(table.rows[k]) = columns

\* a written report of two test cases and two models in which one pair has no
\* record
C13_Witness ==
    /\ phase = "out"
    /\ Written
    /\ Cardinality(allCapabilities(allResults)) = 2
    /\ Cardinality(allModels(allResults)) = 2
    /\ \E t \in allCapabilities(allResults), m \in allModels(allResults) :
          RecordsOf(allResults, t, m) = {}
    /\ Len(report.lines) = 10

\* generateComparisonReport was called and its os.WriteFile returned an error
WriteFailed == Len(output) = 1 /\ ~output[1].err.isNil

\* C14: when writing comparison_report.md fails, generateComparisonReport
\* prints the error and returns: the process does not panic and does not exit
\* with a failure status (main returns, status 0), and the message that the
\* report was generated is not printed.
C14_WriteFailureIsReportedOnly ==
    WriteFailed =>
        /\ phase = "exited"
        /\ exitCode = 0
        /\ console[Len(console)] = "Error writing comparison report: " \o output[1].err.msg
        /\ \A k \in 1..Len(console) :
              console[k] # ReportGenerated

\* the process has ended after two calls of which one failed, and the write
\* of the report failed after the file was created
C14_Witness ==
    /\ WriteFailed
    /\ phase = "exited"
    /\ Len(calls) = 2
    /\ \E k \in 1..Len(allResults[1]) : ~allResults[1][k].Success
    /\ report = [exists |-> TRUE, lines |-> <<>>]

\* C15: with -eval the process calls the RunFunction of the filtered
\* capabilities, the callables runModels calls for a model, in the same
\* order and once each, and never calls generateComparisonReport, so no run
\* with -eval writes comparison_report.md.
C15_EvalCallsButNeverReports ==
    input.evalMode =>
        /\ output = <<>>
        /\ report = NoFile
        /\ Len(calls) <= Len(filteredCapabilities)
        /\ \A k \in 1..Len(calls) : calls[k] = Schedule[k] /\ calls[k].model = 1
        /\ (phase = "exited" /\ exitCode = 0) => Len(calls) = Len(filteredCapabilities)

\* a finished -eval run with two models and two filtered capabilities
C15_Witness ==
    /\ input.evalMode
    /\ phase = "exited"
    /\ exitCode = 0
    /\ Len(models) = 2
    /\ Len(filteredCapabilities) = 2
    /\ Len(calls) = 2
    /\ report = NoFile

\* the command line names no model: no argument, or only blank ones
NoModelArgument == Fields(Join(input.args, " ")) = <<>>

\* -test selects no capability
NoTestMatches == filterCapabilities(input.testsFlag).exited

\* C16: the process exits with status 1 when no model argument is given, when
\* a given model name does not resolve, or when -test matches nothing; every
\* other run that ends, ends with status 0, also when test cases failed or
\* the report could not be written.
C16_ExitStatusOneOrZero ==
    phase = "exited" =>
        exitCode = IF NoModelArgument \/ Unresolvable \/ NoTestMatches THEN 1 ELSE 0

----------------------------------------------------------------------------
(* RunConcurrentRuns step by step: SpecConcurrent makes the calls of        *)
(* agent.Start and agentRun.Wait one at a time, in the order of the two     *)
(* loops, and keeps them in calls; output holds what the function returns.  *)
(* The slice agentRuns is kept in invoked (the runs by their position in    *)
(* runs) and the slice responses in results.                                *)

ConcurrentInit ==
    /\ phase = "start"
    /\ input \in [model : ModelHandles, w : ConcurrentWorlds]
    /\ output = <<>>
    /\ MainStart

\* return result, err
ConcurrentReturn ==
    /\ output' = << RunConcurrentRuns(input.model, input.w) >>
    /\ phase' = "returned"
    /\ UNCHANGED index

\* a failed agent.Start is skipped and the loop goes on with the next run
agentStartSkipsFailed ==
    /\ phase = "start"
    /\ index <= Len(runs)
    /\ calls' = Append(calls, [op |-> "Start", run |-> index, err |-> input.w.starts[index]])
    /\ invoked' = IF input.w.starts[index].isNil THEN Append(invoked, index) ELSE invoked
    /\ index' = IF index = Len(runs) THEN 1 ELSE index + 1
    /\ phase' = IF index = Len(runs) THEN "wait" ELSE "start"
    /\ UNCHANGED <<input, output, modelNames, models, filteredCapabilities, testIndex,
                   results, allResults, console, exitCode, report>>

\* one iteration of `for _, run := range runs`: agent.Start(run.message) and
\* agentRuns = append(agentRuns, agentRun)
agentStart ==
    /\ phase = "start"
    /\ index <= Len(runs)
    /\ calls' = Append(calls, [op |-> "Start", run |-> index, err |-> input.w.starts[index]])
    /\ IF ~input.w.starts[index].isNil
       THEN /\ ConcurrentReturn
            /\ UNCHANGED invoked
       ELSE /\ invoked' = Append(invoked, index)
            /\ index' = IF index = Len(runs) THEN 1 ELSE index + 1
            /\ phase' = IF index = Len(runs) THEN "wait" ELSE "start"
            /\ UNCHANGED output
    /\ UNCHANGED <<input, modelNames, models, filteredCapabilities, testIndex,
                   results, allResults, console, exitCode, report>>

\* one iteration of `for i, agentRun := range agentRuns`: agentRun.Wait(0) and
\* responses[i] = response, on the slice made with len(agentRuns) before the
\* first iteration; after the last one the responses are verified and the
\* function returns
agentRunWait ==
    /\ phase = "wait"
    /\ index <= Len(invoked)
    /\ calls' = Append(calls, [op |-> "Wait", run |-> invoked[index],
                               err |-> input.w.waits[invoked[index]].err])
    /\ LET responses == IF index = 1 THEN [i \in 1..Len(invoked) |-> ""] ELSE results
       IN  IF ~input.w.waits[invoked[index]].err.isNil
           THEN /\ results' = responses
                /\ ConcurrentReturn
           ELSE /\ results' = [responses EXCEPT ![index] = input.w.waits[invoked[index]].response]
                /\ IF index = Len(invoked) THEN ConcurrentReturn
                   ELSE /\ index' = index + 1
                        /\ UNCHANGED <<phase, output>>
    /\ UNCHANGED <<input, modelNames, models, invoked, filteredCapabilities, testIndex,
                   allResults, console, exitCode, report>>

ConcurrentNext == agentStart \/ agentRunWait

SpecConcurrent == ConcurrentInit /\ [][ConcurrentNext]_vars

\* the runs whose agent.Start returned a run, and the runs waited on
Started == { calls[k].run : k \in { k \in 1..Len(calls) : calls[k].op = "Start" /\ calls[k].err.isNil } }
Waited == { calls[k].run : k \in { k \in 1..Len(calls) : calls[k].op = "Wait" } }

\* C17: RunConcurrentRuns starts all its runs before it waits on any of them,
\* and on every return path it has waited for every run it started before it
\* returns its BenchResult.
C17_StartsAllThenWaitsForAllStarted ==
    /\ Waited # {} => Started = 1..Len(runs)
    /\ phase = "returned" => Started \subseteq Waited

\* a call of agent.Start or agentRun.Wait returned an error
SubRunFailed == \E k \in 1..Len(calls) : ~calls[k].err.isNil

\* C18: in RunConcurrentRuns an error from any Start or any Wait, in any
\* position, fails the whole test case: the BenchResult returned has Success
\* false and a non-empty ErrorMessage, and the error returned is not nil.
C18_AnySubRunErrorFailsTheTestCase ==
    (phase = "returned" /\ SubRunFailed) =>
        /\ ~output[1].panicked
        /\ ~output[1].result.Success
        /\ output[1].result.ErrorMessage # ""
        /\ ~output[1].err.isNil

\* all three runs were started and the Wait on the second one failed, after
\* the first run had answered
C18_Witness ==
    /\ phase = "returned"
    /\ Len(calls) = 5
    /\ calls[5] = [op |-> "Wait", run |-> 2, err |-> AnError]
    /\ input.w.waits[1].response = "Nexxia"
    /\ output[1].result.ErrorMessage = "Wait for run failed: " \o AnError.msg

\* a step of runModels that calls a RunFunction, and one that stores a row
CallStep == phase = "runModels" /\ calls' # calls
RowStep == phase = "runModels" /\ allResults' # allResults

\* the records capability j can return when it is run against model i
ReturnedBy(j, i) ==
    { CallRunFunction(filteredCapabilities[j].RunFunction, models[i], w).result :
        w \in { w \in Scenarios(filteredCapabilities[j].RunFunction) :
                  ~CallRunFunction(filteredCapabilities[j].RunFunction, models[i], w).panicked } }

\* C19: runModels works strictly in nested-loop order.  Each call is the next
\* one of the schedule (all capabilities of the filtered list, in order, for
\* model i before any for model i+1) and has returned, with its record
\* appended at position j of the row in the making, before the next call is
\* made; the row of model i is stored at allResults[i] once its calls are
\* done and is not touched again; so allResults[i][j] is the record returned
\* by capability j run against model i.
C19_NestedLoopOrder ==
    /\ [][ /\ CallStep =>
                /\ index <= Len(models)
                /\ calls' = Append(calls, [capability |-> filteredCapabilities[testIndex].Name,
                                           model |-> index])
                /\ calls'[Len(calls')] = Schedule[Len(calls')]
                /\ Len(results) = testIndex - 1
                /\ \/ phase' = "exited" /\ exitCode' = 2
                   \/ \E r \in ReturnedBy(testIndex, index) : results' = Append(results, r)
                /\ allResults' = allResults
           /\ RowStep =>
                /\ testIndex > Len(filteredCapabilities)
                /\ calls' = calls
                /\ Len(calls) = index * Len(filteredCapabilities)
                /\ allResults' = [allResults EXCEPT ![index] = results]
                /\ results' = <<>>
         ]_vars
    /\ [](LoopsFinished =>
            \A i \in 1..Len(models), j \in 1..Len(filteredCapabilities) :
                /\ Len(allResults[i]) = Len(filteredCapabilities)
                /\ allResults[i][j] \in ReturnedBy(j, i))

\* the loops have finished for two models and two capabilities and the four
\* records differ in model or test case; the first model passed the first
\* test case and the second model failed the second
C19_Witness ==
    /\ LoopsFinished
    /\ Len(models) = 2
    /\ models[1] # models[2]
    /\ Len(filteredCapabilities) = 2
    /\ allResults[1][1].Success
    /\ ~allResults[2][2].Success
    /\ allResults[2][2].TestCase = "Streaming"

\* the model names requested on the command line, one for each occurrence
RequestedModelNames == Fields(Join(input.args, " "))

\* the invocations of a provider constructor made for a model name
InvocationsFor(name) == { k \in 1..Len(invoked) : invoked[k].arg = name }

\* C20 as stated: for any argument list the provider constructor is invoked at
\* most once for each distinct model name.
C20_OncePerDistinctName ==
    \A k \in 1..Len(invoked) : Cardinality(InvocationsFor(invoked[k].arg)) <= 1

\* C20, amended: the provider constructor is invoked at most once for each
\* occurrence of a model name in the argument list, in the order of the list,
\* so a name is instantiated as many times as it is given; once all names
\* have resolved there is one handle per occurrence.
C20_OncePerRequestedOccurrence ==
    /\ Len(invoked) <= Len(RequestedModelNames)
    /\ \A k \in 1..Len(invoked) : invoked[k].arg = RequestedModelNames[k]
    /\ \A name \in { RequestedModelNames[k] : k \in 1..Len(RequestedModelNames) } :
          Cardinality(InvocationsFor(name)) <=
              Cardinality({ k \in 1..Len(RequestedModelNames) : RequestedModelNames[k] = name })
    /\ phase \in {"runModels", "runEvaluationMode"} =>
          /\ Len(invoked) = Len(RequestedModelNames)
          /\ Len(models) = Len(RequestedModelNames)
          /\ \A k \in 1..Len(models) : models[k].ModelName = RequestedModelNames[k]

\* the same name was given twice and both occurrences were instantiated
C20_Witness ==
    /\ phase = "runModels"
    /\ Len(invoked) = 2
    /\ invoked[1].arg = invoked[2].arg
    /\ Len(models) = 2
    /\ models[1] = models[2]

\* the console line runModels printed for the j-th call of the row in the making
ProgressLineOf(j) == console[Len(console) - Len(results) + j]

\* C21: the glyph runModels prints for a call agrees with the record it
\* stores: whenever it prints the check mark and SUCCESS, the BenchResult
\* appended for that call has Success true.
C21_SuccessGlyphMeansSuccessRecord ==
    (phase = "runModels" /\ index <= Len(models)) =>
        \A j \in 1..Len(results) :
            ProgressLineOf(j) = Progress(filteredCapabilities[j].Name, NilErr) =>
                results[j].Success

\* C22: whenever a capability function returns a non-nil error, the
\* BenchResult it returns with it has Success false.
C22_ErrorMeansFailedRecord ==
    (phase = "out" /\ ~output.panicked /\ ~output.err.isNil) => ~output.result.Success

\* RunStreaming has returned the error of its validation: the content came
\* in without an error event and does not hold the expected word
C22_Witness ==
    /\ phase = "out"
    /\ input.cap.RunFunction = "RunStreaming"
    /\ ~output.panicked
    /\ ~output.err.isNil
    /\ output.result.ResponseSize > 0
    /\ ~output.result.Success

\* the pairs (test case, model name) of which the matrix holds several records
RepeatedPairs ==
    { p \in allCapabilities(allResults) \X allModels(allResults) :
        Cardinality(RecordsOf(allResults, p[1], p[2])) > 1 }

\* C23: when the matrix holds more than one record of a pair (test case,
\* model name), as it does when a model name is given twice on the command
\* line, the report has a single column for that model and the pair's cells
\* show the record that comes last in the matrix; the earlier records of the
\* pair appear nowhere.
C23_RepeatedPairShowsLastRecord ==
    (phase = "exited" /\ Written) =>
        LET table == Table
        IN  \A p \in RepeatedPairs :
                /\ OneCellPerPair(table, p[1], p[2])
                /\ Len(table.header) = 1 + Cardinality(allModels(allResults))
                /\ StatusAt(table, p[1], p[2]) =
                      IF LastRecord(p[1], p[2]).Success THEN WhiteHeavyCheckMark \o " Success"
                      ELSE CrossMark \o " Failure"
                /\ TimingAt(table, p[1], p[2]) =
                      FormatOneDecimal(LastRecord(p[1], p[2]).Duration) \o "s"

\* the process was given the same model name twice; the first run of the
\* test case passed in 0.7 s, the second failed in 14.4 s, and the report
\* shows the failure only
C23_Witness ==
    /\ phase = "exited"
    /\ Written
    /\ input.args = <<"qwen3:8b", "qwen3:8b">>
    /\ RepeatedPairs # {}
    /\ allResults[1][1].Success
    /\ allResults[1][1].Duration = 700
    /\ ~allResults[2][1].Success
    /\ allResults[2][1].Duration = 14449
    /\ Len(Table.header) = 2
    /\ Table.rows[1][2] = CrossMark \o " Failure"
    /\ Table.rows[2][2] = "14.4s"

\* whatever the framework does during the call, a RunFunction that returns
\* hands back a record named after its capability and the model it was given
EveryReturnPathNamesItsCapability ==
    \A i \in 1..Len(capabilities), m \in ModelHandles :
        \A w \in Worlds(capabilities[i].RunFunction) :
            LET ret == CallRunFunction(capabilities[i].RunFunction, m, w)
            IN  ~ret.panicked =>
                    /\ ret.result.TestCase = capabilities[i].Name
                    /\ ret.result.ModelName = m.ModelName

\* a run that was not cut short: runModels finished and the report is on disk
NormalRun == phase = "exited" /\ exitCode = 0 /\ ~input.evalMode /\ Written

\* C24: on every return path the BenchResult of the RunFunction registered
\* under the capability name N has TestCase N and the ModelName of the model
\* it was given; hence after a normal run the report has exactly one row
\* group for each filtered capability and no "N/A" cell.
C24_RecordsNamedAfterCapabilityAndModel ==
    /\ EveryReturnPathNamesItsCapability
    /\ (phase = "runModels" /\ index <= Len(models)) =>
          \A j \in 1..Len(results) :
              /\ results[j].TestCase = filteredCapabilities[j].Name
              /\ results[j].ModelName = models[index].ModelName
    /\ NormalRun =>
          LET table == Table
          IN  /\ Len(table.rows) = 2 * Len(filteredCapabilities)
              /\ \A c \in 1..Len(filteredCapabilities) :
                    /\ Cardinality(StatusRowsOf(table, filteredCapabilities[c].Name)) = 1
                    /\ Cardinality(TimingRowsOf(table, filteredCapabilities[c].Name)) = 1
              /\ \A k \in 1..Len(table.rows) :
                    \A c \in 1..Len(table.rows[k]) : table.rows[k][c] # "N/A"

\* a normal run of two capabilities against two different models in which a
\* Start failed for one model: the report has two row groups, two model
\* columns and a Failure cell
C24_Witness ==
    /\ NormalRun
    /\ Len(filteredCapabilities) = 2
    /\ Len(models) = 2
    /\ models[1].ModelName # models[2].ModelName
    /\ allResults[1][2].ErrorMessage = AnError.msg
    /\ allResults[2][2].Success
    /\ Len(Table.header) = 3
    /\ Len(Table.rows) = 4

\* the calls made of the c-th filtered capability
CallsOf(c) == { k \in 1..Len(calls) : calls[k].capability = filteredCapabilities[c].Name }

\* the evaluation was entered and the process has ended
EvaluationEnded == input.evalMode /\ phase = "exited" /\ filteredCapabilities # <<>>

\* C25: with -eval each filtered capability is invoked exactly once, against
\* the first model only, however many models were given (the second is only
\* named as scoring model, further ones are not used), and a capability that
\* fails does not keep the following ones from being evaluated.
C25_EvalCallsEachCapabilityOnceOnFirstModel ==
    input.evalMode =>
        /\ \A k \in 1..Len(calls) : calls[k].model = 1
        /\ \A c \in 1..Len(filteredCapabilities) : Cardinality(CallsOf(c)) <= 1
        /\ EvaluationEnded =>
              \A c \in 1..Len(filteredCapabilities) : Cardinality(CallsOf(c)) = 1

\* the capability functions whose event loop only collects content
CollectingLoops == {"RunStreaming", "RunStreamingWithTools", "RunToolIntegration"}

\* the word each of them looks for in the collected content
ExpectedIn(f) == IF f = "RunStreaming" THEN "paris" ELSE "Nexxia"

\* the content of the content events of a sequence, in the order of arrival
RECURSIVE Arrived(_)
Arrived(events) ==
    IF Len(events) = 0 THEN ""
    ELSE Arrived(SubSeq(events, 1, Len(events) - 1))
         \o (IF events[Len(events)].type = "content" THEN events[Len(events)].Content ELSE "")

ErrorEventsOf(events) == { i \in 1..Len(events) : events[i].type = "error" }

\* C26: in the event loops of RunStreaming, RunStreamingWithTools and
\* RunToolIntegration, for any finite event sequence, the content chunks are
\* concatenated in arrival order; the first ErrorEvent ends the call at once
\* with a failed record of ResponseSize 0, whatever content came before it,
\* and no later event is consumed; without an ErrorEvent every event is
\* consumed and the record is built from all content chunks.
C26_EventLoopStopsAtFirstError ==
    (phase = "out" /\ input.cap.RunFunction \in CollectingLoops /\ input.w.startErr.isNil) =>
        LET events == input.w.events
            errors == ErrorEventsOf(events)
            first  == CHOOSE i \in errors : \A k \in errors : i <= k
            all    == Arrived(events)
            found  == Contains(ToLower(all), ToLower(ExpectedIn(input.cap.RunFunction)))
        IN  IF errors # {}
            THEN /\ output.consumed = first
                 /\ ~output.result.Success
                 /\ output.result.ResponseSize = 0
                 /\ output.err = events[first].Err
                 /\ output.result.ErrorMessage = events[first].Err.msg
            ELSE /\ output.consumed = Len(events)
                 /\ output.result.ResponseSize = Len(all)
                 /\ output.result.Success => found
                 /\ ~found =>
                       /\ ~output.err.isNil
                       /\ output.result.ErrorMessage =
                             "expected response to contain '" \o ExpectedIn(input.cap.RunFunction)
                             \o "', got: " \o all

\* RunStreaming received content, then an error event, then more content:
\* two events were consumed and the failed record has ResponseSize 0
C26_Witness ==
    /\ phase = "out"
    /\ input.cap.RunFunction = "RunStreaming"
    /\ input.w.startErr.isNil
    /\ Len(input.w.events) = 3
    /\ input.w.events[1].type = "content"
    /\ input.w.events[2].type = "error"
    /\ input.w.events[3].type = "content"
    /\ output.consumed = 2
    /\ output.result.ResponseSize = 0
    /\ ~output.result.Success

\* the Name the lookup subagent is declared with
LookupSubagentName == "agent_lookup_company_by_name"

\* the run ended without an error event, its final response holds every
\* expected element, and a tool event named the lookup subagent
CoordinatedWithLookup ==
    /\ input.w.startErr.isNil
    /\ ErrorEventsOf(input.w.events) = {}
    /\ \A i \in 1..Len(expectedElements) : Contains(Arrived(input.w.events), expectedElements[i])
    /\ \E i \in 1..Len(input.w.events) :
          input.w.events[i].type = "tool" /\ input.w.events[i].ToolName = LookupSubagentName

\* C27: RunTeamCoordination reports success whenever the final response
\* holds all expected elements (COMPANY_ID:, NAME:, INVOICE_ID:, AMOUNT:,
\* Nexxia, 100) and the lookup subagent, declared with the Name
\* "agent_lookup_company_by_name", was called during the run.
C27_SuccessWhenElementsAndLookup ==
    (phase = "out" /\ input.cap.RunFunction = "RunTeamCoordination" /\ CoordinatedWithLookup) =>
        /\ ~output.panicked
        /\ output.result.Success
        /\ output.err.isNil

----------------------------------------------------------------------------
(* The interactive approval examples (approval/main.go).  SpecApproval runs *)
(* the event loop of one of runExample1..runExample4 on a drawn event       *)
(* sequence and a drawn standard input.  index is the event the loop is at, *)
(* output the part of standard input not yet read, results the lines        *)
(* ReadString has returned, calls the run.Approve calls made.               *)

\* the most events of a drawn run, the most lines of a drawn standard input
MaxLoopEvents == 2
MaxLines == 2

CheckMark == "U+2713"
BallotX == "U+2717"

\* what the operator can type at a prompt
TypedLines == {"y\n", " YES\n", "yeah\n", "\n"}

\* the k-th event of a run whose events are of these kinds; approval
\* requests carry an id of their own
EventOfKind(kind, k) ==
    CASE kind = "content"  -> ContentEvent("Done. ")
      [] kind = "approval" -> ApprovalEvent("ap-" \o IntToStr(k))
      [] kind = "tool"     -> ToolEvent("query_database")
      [] kind = "error"    -> ErrorEvent(AnError)

ApprovalRuns ==
    UNION { { [k \in 1..n |-> EventOfKind(kinds[k], k)] :
                kinds \in [1..n -> {"content", "approval", "tool", "error"}] } :
            n \in 0..MaxLoopEvents }

\* standard input is either a terminal, which hands over one typed line for
\* each read, or a pipe, from which a read takes all that is there
ApprovalInputs ==
    [example : 1..4,
     events  : ApprovalRuns,
     stdin   : UNION { [1..n -> TypedLines] : n \in 0..MaxLines },
     piped   : BOOLEAN]

\* bufio.NewReader(os.Stdin) and reader.ReadString('\n'): the reader is made
\* anew and dropped with whatever it has buffered beyond the first line
ReadString(stdin, piped) ==
    IF Len(stdin) = 0 THEN [line |-> "", rest |-> <<>>]
    ELSE [line |-> Head(stdin), rest |-> IF piped THEN <<>> ELSE Tail(stdin)]

\* anything that starts with y is taken as consent
simulateApprovalUIAcceptsAnyY(e, stdin, piped) ==
    LET read == ReadString(stdin, piped)
        response == TrimSpace(ToLower(read.line))
        approved == HasPrefix(response, "y")
    IN  [approved |-> approved,
         line     |-> read.line,
         rest     |-> read.rest,
         printed  |-> << "APPROVAL REQUIRED", "Tool: " \o e.ToolName,
                         "Approval ID: " \o e.ApprovalID, "Approve this action? (y/n): ",
                         IF approved THEN CheckMark \o " Action APPROVED"
                         ELSE BallotX \o " Action REJECTED" >>]

\* simulateApprovalUI(e): the decision, the line read, what is left of
\* standard input, and the lines printed that depend on the event
simulateApprovalUI(e, stdin, piped) ==
    LET read == ReadString(stdin, piped)
        response == TrimSpace(ToLower(read.line))
        approved == response = "y" \/ response = "yes"
    IN  [approved |-> approved,
         line     |-> read.line,
         rest     |-> read.rest,
         printed  |-> << "APPROVAL REQUIRED", "Tool: " \o e.ToolName,
                         "Approval ID: " \o e.ApprovalID, "Approve this action? (y/n): ",
                         IF approved THEN CheckMark \o " Action APPROVED"
                         ELSE BallotX \o " Action REJECTED" >>]

ApprovalInit ==
    /\ phase = "loop"
    /\ input \in ApprovalInputs
    /\ output = input.stdin
    /\ MainStart

\* the event the loop receives next
AtEvent(type) ==
    /\ phase = "loop"
    /\ index <= Len(input.events)
    /\ input.events[index].type = type

\* case *aigentic.ContentEvent
exampleContentEvent ==
    /\ AtEvent("content")
    /\ console' = Append(console, input.events[index].Content)
    /\ index' = index + 1
    /\ UNCHANGED <<phase, input, output, modelNames, models, invoked, filteredCapabilities,
                   testIndex, results, allResults, calls, exitCode, report>>

\* case *aigentic.ApprovalEvent: simulateApprovalUI(e), then run.Approve
exampleApprovalEvent ==
    /\ AtEvent("approval")
    /\ LET e  == input.events[index]
           ui == simulateApprovalUI(e, output, input.piped)
       IN  /\ console' = console \o ui.printed
           /\ output' = ui.rest
           /\ results' = Append(results, ui.line)
           /\ calls' = Append(calls, [ApprovalID |-> e.ApprovalID, approved |-> ui.approved,
                                      event |-> index])
    /\ index' = index + 1
    /\ UNCHANGED <<phase, input, modelNames, models, invoked, filteredCapabilities,
                   testIndex, allResults, exitCode, report>>

\* case *aigentic.ToolEvent
exampleToolEvent ==
    /\ AtEvent("tool")
    /\ console' = Append(console,
          IF input.example = 4 /\ input.events[index].ToolName = "query_database"
          THEN "[Database query executed - no approval needed]"
          ELSE "[Tool executed: " \o input.events[index].ToolName \o "]")
    /\ index' = index + 1
    /\ UNCHANGED <<phase, input, output, modelNames, models, invoked, filteredCapabilities,
                   testIndex, results, allResults, calls, exitCode, report>>

\* case *aigentic.ErrorEvent: the error is logged and the loop goes on
exampleErrorEvent ==
    /\ AtEvent("error")
    /\ console' = Append(console, "Error: " \o input.events[index].Err.msg)
    /\ index' = index + 1
    /\ UNCHANGED <<phase, input, output, modelNames, models, invoked, filteredCapabilities,
                   testIndex, results, allResults, calls, exitCode, report>>

\* run.Next() is closed: the example returns
exampleReturn ==
    /\ phase = "loop"
    /\ index > Len(input.events)
    /\ phase' = "returned"
    /\ console' = IF input.example = 1
                  THEN Append(console, "Final Response: " \o Arrived(input.events))
                  ELSE console
    /\ UNCHANGED <<input, output, modelNames, models, invoked, filteredCapabilities,
                   index, testIndex, results, allResults, calls, exitCode, report>>

ApprovalNext ==
    \/ exampleContentEvent
    \/ exampleApprovalEvent
    \/ exampleToolEvent
    \/ exampleErrorEvent
    \/ exampleReturn

SpecApproval == ApprovalInit /\ [][ApprovalNext]_vars

\* the approval events the loop has consumed, in order
ConsumedApprovals ==
    LET at == { i \in 1..(index - 1) : input.events[i].type = "approval" }
    IN  [k \in 1..Cardinality(at) |->
            CHOOSE i \in at : Cardinality({ j \in at : j <= i }) = k]

\* the typed lines that are "y" or "yes" once trimmed and lower-cased
ConsentingLines == {"y\n", " YES\n"}

\* C28: in the loop of each interactive approval example every ApprovalEvent
\* received leads to exactly one run.Approve call, with that event's own
\* ApprovalID, before the next event is consumed; the decision is true only
\* when the line read from the operator is "y" or "yes" once trimmed and
\* lower-cased, and any other input, an empty line or the end of input
\* included, rejects the action.
C28_OneApproveForEachApprovalEvent ==
    phase \in {"loop", "returned"} =>
        /\ Len(calls) = Len(ConsumedApprovals)
        /\ Len(results) = Len(calls)
        /\ \A k \in 1..Len(calls) :
              /\ calls[k].event = ConsumedApprovals[k]
              /\ calls[k].ApprovalID = input.events[ConsumedApprovals[k]].ApprovalID
              /\ calls[k].approved <=> results[k] \in ConsentingLines
              /\ results[k] \in TypedLines \cup {""}

\* an example has returned after two approval requests at a terminal: the
\* operator typed " YES" at the first and "yeah" at the second, so the first
\* was approved and the second rejected, each under its own id
C28_Witness ==
    /\ phase = "returned"
    /\ ~input.piped
    /\ Len(calls) = 2
    /\ calls[1] = [ApprovalID |-> "ap-1", approved |-> TRUE, event |-> 1]
    /\ calls[2] = [ApprovalID |-> "ap-2", approved |-> FALSE, event |-> 2]
    /\ results = << " YES\n", "yeah\n" >>

----------------------------------------------------------------------------
(* The calculator tool (tools/main.go).  SpecCalculator calls its Execute   *)
(* once on drawn arguments.  A float64 is kept as a fraction n/d or as NaN; *)
(* the drawn operands are small integers, so every value is exact.          *)

NaN == [nan |-> TRUE, n |-> 0, d |-> 1]
Float(n, d) == [nan |-> FALSE, n |-> n, d |-> d]

Digits == "0123456789"
IsDigits(s) == s # "" /\ \A i \in 1..Len(s) : Contains(Digits, Char(s, i))

RECURSIVE ParseDigits(_)
ParseDigits(s) ==
    IF Len(s) = 0 THEN 0
    ELSE 10 * ParseDigits(SubSeq(s, 1, Len(s) - 1))
         + (CHOOSE v \in 0..9 : Char(Digits, v + 1) = Char(s, Len(s)))

\* strconv.ParseFloat(s, 64) on an optional sign and decimal digits; any
\* other text drawn here is a syntax error for strconv as well
ParseFloat(s) ==
    LET signed == s # "" /\ Char(s, 1) \in {"+", "-"}
        digits == IF signed THEN Tail(s) ELSE s
    IN  IF IsDigits(digits)
        THEN [value |-> Float((IF signed /\ Char(s, 1) = "-" THEN -1 ELSE 1) * ParseDigits(digits), 1),
              err   |-> NilErr]
        ELSE [value |-> Float(0, 1),
              err   |-> NewError("strconv.ParseFloat: parsing \"" \o s \o "\": invalid syntax")]

\* math.Sqrt on an integer that is negative or a perfect square
Sqrt(x) ==
    IF x.n < 0 THEN NaN ELSE Float(CHOOSE r \in 0..x.n : r * r = x.n, 1)

\* math.Pow on natural numbers
RECURSIVE Pow(_, _)
Pow(x, y) == IF y.n = 0 THEN Float(1, 1) ELSE Float(x.n * Pow(x, Float(y.n - 1, 1)).n, 1)

\* %v of a float64: an integer below 1e+06 or a fraction of at most two decimals
FormatFloat(x) ==
    IF x.nan THEN "NaN"
    ELSE LET neg   == x.n < 0
             abs   == IF neg THEN -x.n ELSE x.n
             cents == (abs * 100) \div x.d
             whole == IntToStr(cents \div 100)
             frac  == cents % 100
         IN  (IF neg THEN "-" ELSE "")
             \o whole
             \o (IF frac = 0 THEN ""
                 ELSE IF frac % 10 = 0 THEN "." \o IntToStr(frac \div 10)
                 ELSE IF frac < 10 THEN ".0" \o IntToStr(frac)
                 ELSE "." \o IntToStr(frac))

\* the operators in the order the loop of evaluateExpression tries them
Operators == << "+", "-", "*", "/", "^" >>

\* the body of the loop for the first operator the expression contains
ApplyOperator(expr, op) ==
    LET parts == Split(expr, op)
        left  == ParseFloat(TrimSpace(parts[1]))
        right == ParseFloat(TrimSpace(parts[2]))
    IN  IF Len(parts) # 2
        THEN [value |-> Float(0, 1), err |-> NewError("invalid expression format")]
        ELSE IF ~left.err.isNil
        THEN [value |-> Float(0, 1), err |-> NewError("invalid left operand: " \o left.err.msg)]
        ELSE IF ~right.err.isNil
        THEN [value |-> Float(0, 1), err |-> NewError("invalid right operand: " \o right.err.msg)]
        ELSE CASE op = "+" -> [value |-> Float(left.value.n + right.value.n, 1), err |-> NilErr]
               [] op = "-" -> [value |-> Float(left.value.n - right.value.n, 1), err |-> NilErr]
               [] op = "*" -> [value |-> Float(left.value.n * right.value.n, 1), err |-> NilErr]
               [] op = "/" -> IF right.value.n = 0
                              THEN [value |-> Float(0, 1), err |-> NewError("division by zero")]
                              ELSE [value |-> Float(left.value.n, right.value.n), err |-> NilErr]
               [] op = "^" -> [value |-> Pow(left.value, right.value), err |-> NilErr]

evaluateExpression(expression) ==
    LET expr  == TrimSpace(expression)
        num   == ParseFloat(TrimSpace(SubSeq(expr, 5, Len(expr))))
        found == { i \in 1..Len(Operators) : Contains(expr, Operators[i]) }
        first == CHOOSE i \in found : \A k \in found : i <= k
    IN  IF HasPrefix(expr, "sqrt")
        THEN (IF ~num.err.isNil
              THEN [value |-> Float(0, 1), err |-> NewError("invalid number for sqrt: " \o num.err.msg)]
              ELSE [value |-> Sqrt(num.value), err |-> NilErr])
        ELSE IF found # {} THEN ApplyOperator(expr, Operators[first])
        ELSE [value |-> Float(0, 1), err |-> NewError("unsupported expression format")]

\* &ai.ToolResult{...} with one text content
ToolResult(content, error) == [Content |-> content, Error |-> error]

\* a failed evaluation is handed back as the Go error, without a ToolResult
calculatorExecuteReturnsError(args) ==
    IF ~args.isString
    THEN [result |-> ToolResult("Error: expression must be a string", TRUE), err |-> NilErr]
    ELSE LET r == evaluateExpression(args.expression)
         IN  IF ~r.err.isNil
             THEN [result |-> ToolResult("", FALSE), err |-> r.err]
             ELSE [result |-> ToolResult("Result: " \o FormatFloat(r.value), FALSE), err |-> NilErr]

\* Execute of the calculator tool: (*ai.ToolResult, error)
calculatorExecute(args) ==
    IF ~args.isString
    THEN [result |-> ToolResult("Error: expression must be a string", TRUE), err |-> NilErr]
    ELSE LET r == evaluateExpression(args.expression)
         IN  IF ~r.err.isNil
             THEN [result |-> ToolResult("Error evaluating expression: " \o r.err.msg, TRUE),
                   err    |-> NilErr]
             ELSE [result |-> ToolResult("Result: " \o FormatFloat(r.value), FALSE), err |-> NilErr]

\* operands, operators and spacing of the drawn two-operand expressions, and
\* expressions of other shapes
Operands == {"0", "2", "4", "x", ""}
Expressions ==
    { l \o sp \o op \o sp \o r :
        l \in Operands, r \in Operands, op \in {"+", "-", "*", "/", "^", "%"}, sp \in {"", " "} }
    \cup { "sqrt 16", "sqrt16", " sqrt 0 ", "sqrt -4", "sqrt x", "sqrt", "", "4",
           "2 + 2 + 2", "-2 + 4", "-2 - 4", "4 / -2", "2 * 4 + 2", "2 ^ -2" }

\* args["expression"]: a string, or absent or of another type
CalculatorArgs ==
    { [isString |-> TRUE, expression |-> e] : e \in Expressions }
    \cup { [isString |-> FALSE, expression |-> ""] }

CalculatorInit ==
    /\ phase = "in"
    /\ input \in CalculatorArgs
    /\ output = <<>>
    /\ MainStart

CalculatorCall ==
    /\ phase = "in"
    /\ output' = << calculatorExecute(input) >>
    /\ phase' = "out"
    /\ UNCHANGED <<input, mainVars>>

CalculatorNext == CalculatorCall

SpecCalculator == CalculatorInit /\ [][CalculatorNext]_vars

AtVerification ==
    /\ phase = "returned"
    /\ calls # <<>>
    /\ calls[Len(calls)].op = "Wait"
    /\ calls[Len(calls)].err.isNil

\* C30: in RunConcurrentRuns, whenever execution reaches the "Verify all
\* responses" check, the responses slice has exactly one entry for each
\* defined run, and responses[i] is what the wait on the i-th started run
\* returned; the branch that returns "Should have responses for all runs" is
\* never taken.
C30_OneResponseForEachRun ==
    /\ AtVerification =>
          /\ Len(results) = Len(runs)
          /\ Len(invoked) = Len(runs)
          /\ \A i \in 1..Len(results) :
                /\ invoked[i] = i
                /\ results[i] = input.w.waits[invoked[i]].response
                /\ \E k \in 1..Len(calls) : calls[k] = [op |-> "Wait", run |-> i, err |-> NilErr]
    /\ phase = "returned" =>
          output[1].result.ErrorMessage # "Should have responses for all runs"

\* the check was reached with three different responses, the tool call
\* result among them, and the test case passed
C30_Witness ==
    /\ AtVerification
    /\ results = <<"Nexxia", "Paris", "Paris">>
    /\ output[1].result.Success
    /\ output[1].result.ResponseSize = Len("Nexxia | Paris | Paris")

====
